---------------------------- MODULE Spec2Model ----------------------------
(***************************************************************************)
(* State-machine model of the ingestion pipeline of eth-event-indexer:     *)
(*   - IndexerService (historical backfill, creation-block locator, live   *)
(*     Transfer subscription) over the TypeORM repositories,               *)
(*   - RequestQueueService (the queue/throttle/retry wrapper installed on  *)
(*     provider.send).                                                     *)
(* One action is one run of a handler between two awaits.                  *)
(***************************************************************************)
EXTENDS Integers, Sequences, FiniteSets, TLC

\* ------------------------------------------------------------------------
\* Bounds of the model (environment sizes, not program constants)
\* ------------------------------------------------------------------------
ChainHead == 4
CreationBlock == 2
MaxFaults == 1
MaxInvocations == 2
MaxLive == 2
NumRequests == 6
NumChainId == 2
MaxSignals == 6
BurstSignals == 1
GateSignals == 3
MaxErrors == 1
LongChainHead == 70
MaxRateLimitStreak == 7
MaxSearchHead == 8
MaxCalls == 4
MaxClock == 4

\* ------------------------------------------------------------------------
\* Program constants
\* ------------------------------------------------------------------------
MinBatch == 10
GrowthStreak == 5
SepoliaFloor == 2000000
maxConcurrentRequests == 5
maxRetries == 5
baseDelay == 1000
MaxDelay == 30000
CapPollDelay == 100

\* argument values of startEventIndexing(batchSize)
BatchSizes == {2, 12}

\* columns of the sync_state table that synchronize: true creates from the
\* SyncState entity
SyncStateColumns == {"id", "lastSyncedBlock", "lastSyncedAt"}

\* columns named by the raw INSERT of the live handler
UpsertColumns == {"id", "lastSyncedBlock", "lastSyncedAt", "isIndexing"}

\* deployments with a configured START_BLOCK, and deployments that leave it
\* at 0 so that the creation block is searched (on Sepolia or elsewhere);
\* their repositories are given to the constructor, here over a store whose
\* sync_state table has every column the raw INSERT names
Configured == [START_BLOCK : {1}, sepolia : {FALSE}, syncStateTable : {UpsertColumns}]
Searching == [START_BLOCK : {0}, sepolia : BOOLEAN, syncStateTable : {UpsertColumns}]

\* the deployment of src/config/database.ts: the repositories of a data
\* source that creates the tables from the entities
Synchronized == [START_BLOCK : {1}, sepolia : {FALSE}, syncStateTable : {SyncStateColumns}]

Min(a, b) == IF a < b THEN a ELSE b
Max(a, b) == IF a > b THEN a ELSE b

RECURSIVE Pow2(_)
Pow2(n) == IF n <= 0 THEN 1 ELSE 2 * Pow2(n - 1)

\* ------------------------------------------------------------------------
\* Upstream chain: the Transfer logs of the contract and its nonce history
\* ------------------------------------------------------------------------
\* the chain the backfill and the live subscription read
DefaultChain == [creationBlock |-> CreationBlock, head |-> ChainHead, hasCode |-> TRUE]

\* the same contract on a long chain
LongChain == [DefaultChain EXCEPT !.head = LongChainHead]

\* the address holds no code
NoCode(c) == [c EXCEPT !.hasCode = FALSE]

ChainLogs ==
  { [transactionHash |-> "0xaa", index |-> 0, blockNumber |-> CreationBlock],
    [transactionHash |-> "0xaa", index |-> 1, blockNumber |-> CreationBlock],
    [transactionHash |-> "0xbb", index |-> 0, blockNumber |-> ChainHead] }

LogsIn(from, to) == {l \in ChainLogs : from <= l.blockNumber /\ l.blockNumber <= to}

\* errors as the code can observe them: fields of error.info, error.message
\* and of String(error)
RateLimitError == [kind |-> "rate-limit", status429 |-> TRUE, body429 |-> FALSE,
                   msgTooMany |-> TRUE, text429 |-> TRUE]
ServerError    == [kind |-> "server", status429 |-> FALSE, body429 |-> FALSE,
                   msgTooMany |-> FALSE, text429 |-> FALSE]
ConflictError  == [kind |-> "conflict", status429 |-> FALSE, body429 |-> FALSE,
                   msgTooMany |-> FALSE, text429 |-> FALSE]
StoreError     == [kind |-> "store", status429 |-> FALSE, body429 |-> FALSE,
                   msgTooMany |-> FALSE, text429 |-> FALSE]
CursorError    == [kind |-> "cursor", status429 |-> FALSE, body429 |-> FALSE,
                   msgTooMany |-> FALSE, text429 |-> FALSE]
UpstreamErrors == {RateLimitError, ServerError}

\* the errors _originalSend can reject with, by what the two classifiers
\* read: error.info.responseStatus includes '429', error.info.responseBody
\* includes '"code":429', error.message includes 'Too Many Requests', and
\* String(error) includes '429'
ErrorShapes ==
  [kind : {"upstream"}, status429 : BOOLEAN, body429 : BOOLEAN,
   msgTooMany : BOOLEAN, text429 : BOOLEAN]

\* ------------------------------------------------------------------------
\* State
\* ------------------------------------------------------------------------
VARIABLES
  chain,                 \* the upstream chain: [creationBlock, head, hasCode]
  config,                \* [START_BLOCK, sepolia]: src/config/config.ts
  transferEvents,        \* rows of the transfer_event table, in insertion order
  syncState,             \* rows of the sync_state table: id -> lastSyncedBlock
  isIndexing,            \* IndexerService.isIndexing
  contractCreationBlock, \* IndexerService.contractCreationBlock, {} = null
  ix,                    \* locals of the running startEventIndexing
  live,                  \* one subscription handler per delivered log
  sink,                  \* events handed to the subscription callback
  skipped,               \* ranges the backfill skipped
  indexed,               \* ranges for which indexTransferEvents returned
  sameEventConflict,     \* writers whose save failed on a row of the same event
  saveDone,              \* events of the save calls the store has answered
  invocations,           \* number of startEventIndexing runs started so far
  faults                 \* number of injected upstream/store failures so far

ixvars == <<chain, config, transferEvents, syncState, isIndexing, contractCreationBlock,
            ix, live, sink, skipped, indexed, sameEventConflict, saveDone,
            invocations, faults>>

\* state of the RequestQueueService (its operations are further below)
VARIABLES
  requestQueue,          \* ids of the QueuedRequests in this.requestQueue
  processingQueue,       \* this.processingQueue
  requestsInFlight,      \* this.requestsInFlight
  throttled,             \* this.throttled
  throttleReleaseTime,   \* this.throttleReleaseTime - Date.now(), at least 0
  cachedChainId,         \* this.cachedChainId, {} = null
  requests,              \* per request: attempts, upstream sends, settlement
  upstream,              \* requests whose _originalSend call is outstanding
  retryTimers,           \* request -> ms left on its re-queue setTimeout
  pump,                  \* the await processQueue is suspended at, ms left
  signals,               \* rate-limit answers the upstream will still give
  errors                 \* other failures the upstream will still give

gwvars == <<requestQueue, processingQueue, requestsInFlight, throttled,
            throttleReleaseTime, cachedChainId, requests, upstream, retryTimers,
            pump, signals, errors>>

\* state of the RateLimiter middleware of the HTTP API (further below)
VARIABLES
  limiter,               \* [windowMs, maxRequests] given to the constructor
  ipRecords,             \* this.ipRecords: key -> [count, lastReset]
  clock,                 \* Date.now()
  served                 \* the calls of the middleware so far, with their outcome

rlvars == <<limiter, ipRecords, clock, served>>

vars == <<ixvars, gwvars, rlvars>>

\* ------------------------------------------------------------------------
\* TransferEvent entity and repository.save
\* ------------------------------------------------------------------------
\* the entity's primary key: the only @PrimaryColumn is transactionHash
PrimaryKey(e) == e.transactionHash

\* new TransferEvent() filled from an EventLog
NewTransferEvent(log) ==
  [transactionHash |-> log.transactionHash,
   blockNumber     |-> log.blockNumber,
   logIndex        |-> IF log.index # 0 THEN log.index ELSE 0]

RowSet(table) == {table[i] : i \in DOMAIN table}
KeySet(S) == {PrimaryKey(e) : e \in S}

StoredKeys == KeySet(RowSet(transferEvents))

\* first phase of repository.save: load the rows that carry the keys of the batch
SaveLoad(table, batch) == {r \in RowSet(table) : PrimaryKey(r) \in KeySet(batch)}

ToInsert(batch, loaded) == {e \in batch : PrimaryKey(e) \notin KeySet(loaded)}

\* the INSERTs of the second phase hit the primary-key constraint
SaveConflict(table, batch, loaded) ==
  LET ins == ToInsert(batch, loaded) IN
    \/ \E e \in ins : PrimaryKey(e) \in KeySet(RowSet(table))
    \/ \E e1, e2 \in ins : e1 # e2 /\ PrimaryKey(e1) = PrimaryKey(e2)

\* the constraint is hit only by entities whose very same log is a stored row
SameEventConflict(table, batch, loaded) ==
  LET ins == ToInsert(batch, loaded) IN
    /\ \E e \in ins : e \in RowSet(table)
    /\ \A e \in ins : PrimaryKey(e) \in KeySet(RowSet(table)) => e \in RowSet(table)
    /\ \A e1, e2 \in ins : PrimaryKey(e1) = PrimaryKey(e2) => e1 = e2

Before(e1, e2) ==
  \/ e1.blockNumber < e2.blockNumber
  \/ e1.blockNumber = e2.blockNumber /\ e1.transactionHash = e2.transactionHash
     /\ e1.logIndex < e2.logIndex
  \/ e1.blockNumber = e2.blockNumber /\ e1.transactionHash # e2.transactionHash
     /\ e1.transactionHash = "0xaa"

RECURSIVE InOrder(_)
InOrder(S) ==
  IF S = {} THEN <<>>
  ELSE LET first == CHOOSE e \in S : \A o \in S \ {e} : Before(e, o)
       IN <<first>> \o InOrder(S \ {first})

\* a save that stops at the failing statement and keeps the rows written so far
FailedSave_Partial(table, batch, loaded) ==
  LET ins == InOrder(ToInsert(batch, loaded)) IN
    IF Len(ins) > 1 /\ PrimaryKey(ins[1]) \notin KeySet(RowSet(table))
    THEN table \o <<ins[1]>> ELSE table

\* repository.save(entities) that throws: the statements of one save call run
\* in one transaction, which is rolled back
FailedSave(table, batch, loaded) == table

\* a write phase that inserts every entity of the batch as a new row
SaveWrite_InsertOnly(table, batch, loaded) == table \o InOrder(batch)

\* second phase of repository.save when no constraint is hit: rows found by
\* the load are UPDATEd by the entities that differ from them (in batch
\* order), the others are INSERTed
SaveWrite(table, batch, loaded) ==
  LET ins == ToInsert(batch, loaded)
      changed(k) == {e \in batch : PrimaryKey(e) = k /\ e \notin loaded
                                   /\ PrimaryKey(e) \in KeySet(loaded)}
      last(S) == CHOOSE e \in S : \A o \in S \ {e} : Before(o, e)
      updated == [i \in DOMAIN table |->
                    IF changed(PrimaryKey(table[i])) = {} THEN table[i]
                    ELSE last(changed(PrimaryKey(table[i])))]
  IN updated \o InOrder(ins)

\* ------------------------------------------------------------------------
\* Initial state
\* ------------------------------------------------------------------------
Idle ==
  [pc |-> "idle", batchSize |-> 0, currentBatchSize |-> 0,
   consecutiveSuccesses |-> 0, consecutiveFailures |-> 0,
   resuming |-> FALSE, currentBlock |-> 0, startBlock |-> 0,
   fromBlock |-> 0, toBlock |-> 0, events |-> {}, loaded |-> {}, resaved |-> FALSE,
   low |-> 0, high |-> 0, mid |-> 0, txCountAtMid |-> 0, backoffMs |-> 0,
   failedRanges |-> {}, lastAdvance |-> 0, caught |-> {}]

NoHandler == [pc |-> "none", loaded |-> {}, error |-> "none", stale |-> FALSE]

IxInit(configs, chains) ==
  /\ config \in configs
  /\ chain \in chains
  /\ transferEvents = <<>>
  /\ syncState = [id \in {} |-> 0]
  /\ isIndexing = FALSE
  /\ contractCreationBlock = {}
  /\ ix = Idle
  /\ live = [l \in ChainLogs |-> NoHandler]
  /\ sink = {}
  /\ skipped = {}
  /\ indexed = {}
  /\ sameEventConflict = {}
  /\ saveDone = {}
  /\ invocations = 0
  /\ faults = 0

\* ------------------------------------------------------------------------
\* IndexerService.startEventIndexing
\* ------------------------------------------------------------------------
HasCursor(id) == id \in DOMAIN syncState

\* the row findOne({ where: { id } }) returns, {} = null
Cursor(rows, id) == IF id \in DOMAIN rows THEN {rows[id]} ELSE {}

\* syncStateRepository.save of a row with the given id and lastSyncedBlock
SaveSyncState(rows, id, block) ==
  [k \in DOMAIN rows \cup {id} |-> IF k = id THEN block ELSE rows[k]]

Fault == faults < MaxFaults /\ faults' = faults + 1
NoFault == faults' = faults

\* the test of the inner catch on String(error)
EngineIsRateLimit(error) == error.text429 \/ error.msgTooMany

\* START_BLOCK > 0 ? START_BLOCK : 1
FallbackStartBlock == IF config.START_BLOCK > 0 THEN config.START_BLOCK ELSE 1

StartSearchBlock == IF config.sepolia THEN SepoliaFloor ELSE 0

\* a loop that stops one block short of the head
LoopCondition_Strict(fromBlock, currentBlock) == fromBlock < currentBlock

\* fromBlock <= currentBlock
LoopCondition(fromBlock, currentBlock) == fromBlock <= currentBlock

\* an end of range that is not capped at the head
ToBlock_Uncapped(fromBlock, size, currentBlock) == fromBlock + size - 1

\* Math.min(fromBlock + currentBatchSize - 1, currentBlock)
ToBlock(fromBlock, size, currentBlock) == Min(fromBlock + size - 1, currentBlock)

\* head of the for loop: compute toBlock and call indexTransferEvents, or
\* leave the loop and run the finally block (startBlock, currentBlock and the
\* record of the run's skipped ranges and last cursor write stay readable
\* after the run, for the properties)
Continue(r) ==
  IF LoopCondition(r.fromBlock, r.currentBlock)
  THEN /\ ix' = [r EXCEPT !.toBlock = ToBlock(r.fromBlock, r.currentBatchSize,
                                               r.currentBlock),
                          !.pc = "queryFilter", !.events = {}, !.loaded = {},
                          !.resaved = FALSE]
       /\ isIndexing' = isIndexing
  ELSE /\ ix' = [Idle EXCEPT !.startBlock = r.startBlock,
                             !.currentBlock = r.currentBlock,
                             !.failedRanges = r.failedRanges,
                             !.lastAdvance = r.lastAdvance,
                             !.caught = r.caught]
       /\ isIndexing' = FALSE

\* an outer catch without the finally block
Abort_GuardLeftSet ==
  /\ ix' = Idle
  /\ isIndexing' = isIndexing

\* outer catch and finally of startEventIndexing
Abort ==
  /\ ix' = Idle
  /\ isIndexing' = FALSE

\* a growth test that does not wait for the streak
MayGrow_Early(successes, size, initial) == size < initial

\* consecutiveSuccesses >= 5 && currentBatchSize < batchSize
MayGrow(successes, size, initial) == successes >= GrowthStreak /\ size < initial

\* success branch after the cursor update
AfterSuccess(r) ==
  LET s == r.consecutiveSuccesses + 1
      grow == MayGrow(s, r.currentBatchSize, r.batchSize)
  IN Continue([r EXCEPT
       !.consecutiveSuccesses = IF grow THEN 0 ELSE s,
       !.consecutiveFailures = 0,
       !.currentBatchSize = IF grow THEN Min(r.currentBatchSize * 2, r.batchSize)
                            ELSE r.currentBatchSize,
       !.fromBlock = r.toBlock + 1])

\* a skip that leaves fromBlock where it was
SkipTo_Same(r) == r.fromBlock

\* fromBlock = toBlock + 1 of the skip branch
SkipTo(r) == r.toBlock + 1

\* a halving without the floor
Halve_NoFloor(size) == size \div 2

\* Math.max(Math.floor(currentBatchSize / 2), 10)
Halve(size) == Max(size \div 2, MinBatch)

\* a catch that halves whatever the current size is
MayHalve_Always(size) == TRUE

\* if (currentBatchSize > 10)
MayHalve(size) == size > MinBatch

\* inner catch of the loop
OnBatchError(r, error) ==
  IF EngineIsRateLimit(error)
  THEN LET f == r.consecutiveFailures + 1 IN
       /\ ix' = [r EXCEPT
            !.consecutiveFailures = f,
            !.consecutiveSuccesses = 0,
            !.currentBatchSize = IF MayHalve(r.currentBatchSize)
                                 THEN Halve(r.currentBatchSize)
                                 ELSE r.currentBatchSize,
            !.backoffMs = IF MayHalve(r.currentBatchSize)
                          THEN Min(1000 * Pow2(f), 60000)
                          ELSE Min(5000 * Pow2(f), 300000),
            !.pc = "backoff"]
       /\ isIndexing' = isIndexing
       /\ skipped' = skipped
  ELSE /\ Continue([r EXCEPT !.fromBlock = SkipTo(r),
                               !.failedRanges = r.failedRanges \cup {<<r.fromBlock, r.toBlock>>}])
       /\ skipped' = skipped \cup {<<r.fromBlock, r.toBlock>>}

\* a catch block that logs the error and does not rethrow it
IndexTransferEventsCatch_Swallow(r, error) ==
  /\ ix' = [r EXCEPT !.pc = "findCursor"]
  /\ UNCHANGED <<isIndexing, skipped>>

\* catch block of indexTransferEvents: log and rethrow to the loop's catch
IndexTransferEventsCatch(r, error) == OnBatchError(r, error)

\* a run that restarts from the default start block instead of the cursor
ResumeBlock_Restart(lastSyncedBlock) == FallbackStartBlock

\* a run that requests the last synced block again
ResumeBlock_Same(lastSyncedBlock) == lastSyncedBlock

\* first block of a run that finds a batch-sync row
ResumeBlock(lastSyncedBlock) == lastSyncedBlock + 1

\* a guard that lets every invocation through
AlreadyRunning_Never(flag) == FALSE

\* if (this.isIndexing)
AlreadyRunning(flag) == flag

StartEventIndexing(batchSize) ==
  /\ invocations < MaxInvocations
  /\ IF AlreadyRunning(isIndexing)
     THEN UNCHANGED <<ix, isIndexing, invocations>>
     ELSE /\ isIndexing' = TRUE
          /\ invocations' = invocations + 1
          /\ ix' = [Idle EXCEPT !.pc = "getLastSyncedBlock",
                                !.batchSize = batchSize,
                                !.currentBatchSize = batchSize]
  /\ UNCHANGED <<gwvars, rlvars, chain, config, transferEvents, syncState, contractCreationBlock, live,
                 sink, skipped, indexed, sameEventConflict, saveDone, faults>>

\* await this.getLastSyncedBlock() returns; provider.getBlockNumber() is called
GetLastSyncedBlock ==
  /\ ix.pc = "getLastSyncedBlock"
  /\ \/ /\ NoFault
        /\ ix' = [ix EXCEPT !.pc = "getBlockNumber",
                            !.resuming = HasCursor("batch-sync"),
                            !.startBlock = IF HasCursor("batch-sync")
                                           THEN ResumeBlock(syncState["batch-sync"])
                                           ELSE 0]
        /\ UNCHANGED isIndexing
     \/ Fault /\ Abort
  /\ UNCHANGED <<gwvars, rlvars, chain, config, transferEvents, syncState, contractCreationBlock, live,
                 sink, skipped, indexed, sameEventConflict, saveDone, invocations>>

\* await this.provider.getBlockNumber() returns the head of the chain
GetBlockNumber ==
  /\ ix.pc = "getBlockNumber"
  /\ \/ /\ NoFault
        /\ LET r == [ix EXCEPT !.currentBlock = chain.head] IN
           IF r.resuming
           THEN Continue([r EXCEPT !.fromBlock = r.startBlock])
           ELSE /\ isIndexing' = isIndexing
                /\ IF config.START_BLOCK = 0
                   THEN IF contractCreationBlock # {}
                        THEN ix' = [r EXCEPT !.pc = "createCursor",
                                      !.startBlock = CHOOSE b \in contractCreationBlock : TRUE]
                        ELSE ix' = [r EXCEPT !.pc = "getCode"]
                   ELSE ix' = [r EXCEPT !.pc = "createCursor",
                                        !.startBlock = config.START_BLOCK]
     \/ Fault /\ Abort
  /\ UNCHANGED <<gwvars, rlvars, chain, config, transferEvents, syncState, contractCreationBlock, live,
                 sink, skipped, indexed, sameEventConflict, saveDone, invocations>>

\* an initial cursor that points at the start block itself
InitialCursor_AtStart(startBlock) == startBlock

\* syncState.lastSyncedBlock = startBlock - 1
InitialCursor(startBlock) == startBlock - 1

\* await this.syncStateRepository.save(syncState) of the initial cursor returns
CreateCursor ==
  /\ ix.pc = "createCursor"
  /\ \/ /\ NoFault
        /\ syncState' = SaveSyncState(syncState, "batch-sync", InitialCursor(ix.startBlock))
        /\ Continue([ix EXCEPT !.fromBlock = ix.startBlock])
     \/ Fault /\ Abort /\ UNCHANGED syncState
  /\ UNCHANGED <<gwvars, rlvars, chain, config, transferEvents, contractCreationBlock, live,
                 sink, skipped, indexed, sameEventConflict, saveDone, invocations>>

\* ------------------------------------------------------------------------
\* IndexerService.getContractCreationBlock (reached from startEventIndexing
\* when START_BLOCK is 0 and no result is cached)
\* ------------------------------------------------------------------------
\* both fallback exits: the end of the search and the catch block
LocatorFallback(r) ==
  /\ contractCreationBlock' = {FallbackStartBlock}
  /\ ix' = [r EXCEPT !.pc = "createCursor", !.startBlock = FallbackStartBlock,
                     !.low = 0, !.high = 0, !.mid = 0, !.txCountAtMid = 0]

\* head of the while loop: probe the middle block or give up
LocatorLoop(r) ==
  IF r.low <= r.high
  THEN /\ ix' = [r EXCEPT !.mid = (r.low + r.high) \div 2, !.pc = "txCountAtMid"]
       /\ contractCreationBlock' = contractCreationBlock
  ELSE LocatorFallback(r)

\* a test that takes any block with transactions for the creation block
Pinpointed_AnyTransaction(txCountAtMid, txCountAtMidMinus1) == txCountAtMid > 0

\* txCountAtMid > 0 && txCountAtMidMinus1 === 0
Pinpointed(txCountAtMid, txCountAtMidMinus1) == txCountAtMid > 0 /\ txCountAtMidMinus1 = 0

\* the three branches of the loop body
LocatorDecide(r, txCountAtMid, txCountAtMidMinus1) ==
  IF Pinpointed(txCountAtMid, txCountAtMidMinus1)
  THEN /\ contractCreationBlock' = {r.mid}
       /\ ix' = [r EXCEPT !.pc = "createCursor", !.startBlock = r.mid,
                          !.low = 0, !.high = 0, !.mid = 0, !.txCountAtMid = 0]
  ELSE IF txCountAtMid = 0
       THEN LocatorLoop([r EXCEPT !.low = r.mid + 1, !.txCountAtMid = 0])
       ELSE LocatorLoop([r EXCEPT !.high = r.mid - 1, !.txCountAtMid = 0])

\* getTransactionCount(CONTRACT_ADDRESS, b) of the upstream
TransactionCount(b) == IF b >= chain.creationBlock THEN 1 ELSE 0

\* a test that takes every answer of getCode for contract code
ContractNotFound_Never(c) == FALSE

\* if (code === '0x') throw new Error('Contract not found at the specified address')
ContractNotFound(c) == ~c.hasCode

\* await this.provider.getCode(CONTRACT_ADDRESS) returns
GetCode ==
  /\ ix.pc = "getCode"
  /\ \/ /\ NoFault
        /\ IF ContractNotFound(chain)
           THEN LocatorFallback(ix)      \* thrown and caught at the end of the locator
           ELSE /\ ix' = [ix EXCEPT !.pc = "locatorBlockNumber"]
                /\ UNCHANGED contractCreationBlock
     \/ Fault /\ LocatorFallback(ix)        \* the call failed
  /\ UNCHANGED <<gwvars, rlvars, chain, config, transferEvents, syncState, isIndexing, live, sink,
                 skipped, indexed, sameEventConflict, saveDone, invocations>>

\* await this.provider.getBlockNumber() of the locator returns
LocatorBlockNumber ==
  /\ ix.pc = "locatorBlockNumber"
  /\ \/ NoFault /\ LocatorLoop([ix EXCEPT !.low = StartSearchBlock, !.high = chain.head])
     \/ Fault /\ LocatorFallback(ix)
  /\ UNCHANGED <<gwvars, rlvars, chain, config, transferEvents, syncState, isIndexing, live, sink,
                 skipped, indexed, sameEventConflict, saveDone, invocations>>

\* await getTransactionCount(mid) returns (a failed probe counts as 0)
TxCountAtMid ==
  /\ ix.pc = "txCountAtMid"
  /\ \E failed \in BOOLEAN :
       /\ IF failed THEN Fault ELSE NoFault
       /\ LET count == IF failed THEN 0 ELSE TransactionCount(ix.mid) IN
          IF ix.mid > StartSearchBlock
          THEN /\ ix' = [ix EXCEPT !.txCountAtMid = count, !.pc = "txCountAtMidMinus1"]
               /\ UNCHANGED contractCreationBlock
          ELSE LocatorDecide(ix, count, -1)
  /\ UNCHANGED <<gwvars, rlvars, chain, config, transferEvents, syncState, isIndexing, live, sink,
                 skipped, indexed, sameEventConflict, saveDone, invocations>>

\* await getTransactionCount(mid - 1) returns
TxCountAtMidMinus1 ==
  /\ ix.pc = "txCountAtMidMinus1"
  /\ \E failed \in BOOLEAN :
       /\ IF failed THEN Fault ELSE NoFault
       /\ LocatorDecide(ix, ix.txCountAtMid,
                        IF failed THEN 0 ELSE TransactionCount(ix.mid - 1))
  /\ UNCHANGED <<gwvars, rlvars, chain, config, transferEvents, syncState, isIndexing, live, sink,
                 skipped, indexed, sameEventConflict, saveDone, invocations>>

\* ------------------------------------------------------------------------
\* The loop body: indexTransferEvents and the cursor update
\* ------------------------------------------------------------------------
\* await this.contract.queryFilter(filter, fromBlock, toBlock) returns
QueryFilter ==
  /\ ix.pc = "queryFilter"
  /\ \/ /\ NoFault
        /\ LET events == {NewTransferEvent(l) : l \in LogsIn(ix.fromBlock, ix.toBlock)} IN
           IF events = {}
           THEN /\ ix' = [ix EXCEPT !.pc = "findCursor"]
                /\ indexed' = indexed \cup {<<ix.fromBlock, ix.toBlock>>}
           ELSE /\ ix' = [ix EXCEPT !.pc = "getBlock", !.events = events]
                /\ indexed' = indexed
        /\ UNCHANGED <<isIndexing, skipped>>
     \/ /\ Fault
        /\ \E error \in UpstreamErrors : IndexTransferEventsCatch(ix, error)
        /\ UNCHANGED indexed
  /\ UNCHANGED <<gwvars, rlvars, chain, config, transferEvents, syncState, contractCreationBlock, live,
                 sink, sameEventConflict, saveDone, invocations>>

\* the awaits of event.getBlock() in the for loop return; save is called
GetBlock ==
  /\ ix.pc = "getBlock"
  /\ \/ /\ NoFault
        /\ ix' = [ix EXCEPT !.pc = "saveLoad"]
        /\ UNCHANGED <<isIndexing, skipped>>
     \/ /\ Fault
        /\ \E error \in UpstreamErrors : IndexTransferEventsCatch(ix, error)
  /\ UNCHANGED <<gwvars, rlvars, chain, config, transferEvents, syncState, contractCreationBlock, live,
                 sink, indexed, sameEventConflict, saveDone, invocations>>

\* transferEventRepository.save(transferEvents): the rows are looked up
BatchSaveLoad ==
  /\ ix.pc = "saveLoad"
  /\ ix' = [ix EXCEPT !.pc = "saveWrite", !.loaded = SaveLoad(transferEvents, ix.events)]
  /\ UNCHANGED <<gwvars, rlvars, chain, config, transferEvents, syncState, isIndexing, contractCreationBlock,
                 live, sink, skipped, indexed, sameEventConflict, saveDone, invocations, faults>>

\* transferEventRepository.save(transferEvents): the rows are written and
\* indexTransferEvents returns, or the save throws
BatchSaveWrite ==
  /\ ix.pc = "saveWrite"
  /\ \/ /\ NoFault
        /\ ~SaveConflict(transferEvents, ix.events, ix.loaded)
        /\ transferEvents' = SaveWrite(transferEvents, ix.events, ix.loaded)
        /\ ix' = [ix EXCEPT !.pc = "findCursor", !.loaded = {},
                            !.resaved = (KeySet(ix.events) \subseteq StoredKeys)]
        /\ indexed' = indexed \cup {<<ix.fromBlock, ix.toBlock>>}
        /\ saveDone' = saveDone \cup ix.events
        /\ UNCHANGED <<isIndexing, skipped, sameEventConflict>>
     \/ /\ NoFault
        /\ SaveConflict(transferEvents, ix.events, ix.loaded)
        /\ IndexTransferEventsCatch(ix, ConflictError)
        /\ saveDone' = saveDone \cup ix.events
        /\ sameEventConflict' =
             IF SameEventConflict(transferEvents, ix.events, ix.loaded)
             THEN sameEventConflict \cup {"backfill"} ELSE sameEventConflict
        /\ transferEvents' = FailedSave(transferEvents, ix.events, ix.loaded)
        /\ UNCHANGED indexed
     \/ /\ Fault
        /\ IndexTransferEventsCatch(ix, StoreError)
        /\ transferEvents' = FailedSave(transferEvents, ix.events, ix.loaded)
        /\ UNCHANGED <<indexed, sameEventConflict, saveDone>>
  /\ UNCHANGED <<gwvars, rlvars, chain, config, syncState, contractCreationBlock, live, sink, invocations>>

\* await this.syncStateRepository.findOne({id: 'batch-sync'}) returns
FindCursor ==
  /\ ix.pc = "findCursor"
  /\ \/ /\ NoFault
        /\ IF HasCursor("batch-sync")
           THEN ix' = [ix EXCEPT !.pc = "saveCursor"] /\ UNCHANGED isIndexing
           ELSE AfterSuccess(ix)
        /\ UNCHANGED skipped
     \/ /\ Fault
        /\ OnBatchError(ix, CursorError)
  /\ UNCHANGED <<gwvars, rlvars, chain, config, transferEvents, syncState, contractCreationBlock, live,
                 sink, indexed, sameEventConflict, saveDone, invocations>>

\* a cursor write that stores the first block of the range
CursorValue_From(r) == r.fromBlock

\* the value written into the loaded cursor row
CursorValue(r) == r.toBlock

\* await this.syncStateRepository.save(syncState) returns
SaveCursor ==
  /\ ix.pc = "saveCursor"
  /\ \/ /\ NoFault
        /\ syncState' = SaveSyncState(syncState, "batch-sync", CursorValue(ix))
        /\ AfterSuccess([ix EXCEPT !.lastAdvance = ix.toBlock])
        /\ UNCHANGED skipped
     \/ /\ Fault
        /\ OnBatchError(ix, CursorError)
        /\ UNCHANGED syncState
  /\ UNCHANGED <<gwvars, rlvars, chain, config, transferEvents, contractCreationBlock, live,
                 sink, indexed, sameEventConflict, saveDone, invocations>>

\* the sleep of the rate-limit branch is over: the same fromBlock is retried
Backoff ==
  /\ ix.pc = "backoff"
  /\ Continue([ix EXCEPT !.backoffMs = 0])
  /\ UNCHANGED <<gwvars, rlvars, chain, config, transferEvents, syncState, contractCreationBlock, live,
                 sink, skipped, indexed, sameEventConflict, saveDone, invocations, faults>>

\* ------------------------------------------------------------------------
\* IndexerService.subscribeToTransferEvents: the handler of one live event
\* ------------------------------------------------------------------------
\* an upsert that overwrites lastSyncedBlock without the CASE guard
ConditionalUpsert_Unguarded(rows, id, block) ==
  [k \in DOMAIN rows \cup {id} |-> IF k = id THEN block ELSE rows[k]]

\* INSERT ... ON CONFLICT(id) DO UPDATE SET lastSyncedBlock =
\*   CASE WHEN lastSyncedBlock < ? THEN ? ELSE lastSyncedBlock END
ConditionalUpsert(rows, id, block) ==
  IF id \in DOMAIN rows
  THEN [rows EXCEPT ![id] = IF rows[id] < block THEN block ELSE rows[id]]
  ELSE [k \in DOMAIN rows \cup {id} |-> IF k = id THEN block ELSE rows[k]]

\* the provider emits the Transfer log and the handler's provider.getBlock
\* returns: the event is built and save is called, or the outer catch logs
Deliver(l) ==
  /\ live[l].pc = "none"
  /\ Cardinality({k \in ChainLogs : live[k].pc # "none"}) < MaxLive
  /\ \/ NoFault /\ live' = [live EXCEPT ![l].pc = "saveLoad"]
     \/ Fault /\ live' = [live EXCEPT ![l].pc = "dropped"]
  /\ UNCHANGED <<gwvars, rlvars, chain, config, transferEvents, syncState, isIndexing, contractCreationBlock,
                 ix, sink, skipped, indexed, sameEventConflict, saveDone, invocations>>

\* transferEventRepository.save(transferEvent): the row is looked up
LiveSaveLoad(l) ==
  /\ live[l].pc = "saveLoad"
  /\ live' = [live EXCEPT ![l].pc = "saveWrite",
                          ![l].loaded = SaveLoad(transferEvents, {NewTransferEvent(l)})]
  /\ UNCHANGED <<gwvars, rlvars, chain, config, transferEvents, syncState, isIndexing, contractCreationBlock,
                 ix, sink, skipped, indexed, sameEventConflict, saveDone, invocations, faults>>

\* a handler that goes on to the cursor and the callback after a failed save
LiveAfterSaveError_GoOn(l) ==
  live' = [live EXCEPT ![l].pc = "upsert", ![l].loaded = {}]

\* the handler's continuation when the save has thrown (outer catch)
LiveAfterSaveError(l) ==
  live' = [live EXCEPT ![l].pc = "dropped", ![l].loaded = {}]

\* transferEventRepository.save(transferEvent): the row is written and the
\* realtime-sync upsert is issued, or the save throws
LiveSaveWrite(l) ==
  /\ live[l].pc = "saveWrite"
  /\ LET batch == {NewTransferEvent(l)} IN
     \/ /\ NoFault
        /\ ~SaveConflict(transferEvents, batch, live[l].loaded)
        /\ transferEvents' = SaveWrite(transferEvents, batch, live[l].loaded)
        /\ live' = [live EXCEPT ![l].pc = "upsert", ![l].loaded = {}]
        /\ saveDone' = saveDone \cup batch
        /\ UNCHANGED sameEventConflict
     \/ /\ NoFault
        /\ SaveConflict(transferEvents, batch, live[l].loaded)
        /\ LiveAfterSaveError(l)
        /\ saveDone' = saveDone \cup batch
        /\ sameEventConflict' =
             IF SameEventConflict(transferEvents, batch, live[l].loaded)
             THEN sameEventConflict \cup {"live"} ELSE sameEventConflict
        /\ UNCHANGED transferEvents
     \/ /\ Fault
        /\ LiveAfterSaveError(l)
        /\ UNCHANGED <<transferEvents, sameEventConflict, saveDone>>
  /\ UNCHANGED <<gwvars, rlvars, chain, config, syncState, isIndexing, contractCreationBlock,
                 ix, sink, skipped, indexed, invocations>>

\* SQLite rejects an INSERT that names a column the table does not have
UpsertAccepted(table) == UpsertColumns \subseteq table

\* a handler that ends as a failed one when the callback throws
AfterCallback_Failed(threw) == IF threw THEN "dropped" ELSE "done"

\* the end of the handler after callback(transferEvent): a throw is caught
\* by the outer catch, which only logs
AfterCallback(threw) == "done"

\* the raw upsert returns (a failure is caught and logged), then the
\* callback is called (a throw is caught by the outer catch)
LiveUpsert(l) ==
  /\ live[l].pc = "upsert"
  /\ \E upsertFault, callbackThrows \in BOOLEAN :
       LET upsertFails == upsertFault \/ ~UpsertAccepted(config.syncStateTable)
           n == (IF upsertFault THEN 1 ELSE 0) + (IF callbackThrows THEN 1 ELSE 0) IN
       /\ faults + n <= MaxFaults
       /\ faults' = faults + n
       /\ syncState' = IF upsertFails THEN syncState
                       ELSE ConditionalUpsert(syncState, "realtime-sync", l.blockNumber)
       /\ sink' = sink \cup {NewTransferEvent(l)}
       /\ live' = [live EXCEPT ![l].pc = AfterCallback(callbackThrows),
                     ![l].stale = (~upsertFails /\ HasCursor("realtime-sync")
                                   /\ l.blockNumber <= syncState["realtime-sync"]),
                     ![l].error = IF upsertFails THEN "upsert" ELSE "none"]
  /\ UNCHANGED <<gwvars, rlvars, chain, config, transferEvents, isIndexing, contractCreationBlock,
                 ix, skipped, indexed, sameEventConflict, saveDone, invocations>>

\* ------------------------------------------------------------------------
\* Specification of the indexer
\* ------------------------------------------------------------------------
Next ==
  \/ \E batchSize \in BatchSizes : StartEventIndexing(batchSize)
  \/ GetLastSyncedBlock
  \/ GetBlockNumber
  \/ CreateCursor
  \/ QueryFilter
  \/ GetBlock
  \/ BatchSaveLoad
  \/ BatchSaveWrite
  \/ FindCursor
  \/ SaveCursor
  \/ Backoff
  \/ \E l \in ChainLogs : Deliver(l)
  \/ \E l \in ChainLogs : LiveSaveLoad(l)
  \/ \E l \in ChainLogs : LiveSaveWrite(l)
  \/ \E l \in ChainLogs : LiveUpsert(l)

\* a deployment that searches the creation block: startEventIndexing with
\* the locator, without live events
LocatorNext ==
  \/ \E batchSize \in BatchSizes : StartEventIndexing(batchSize)
  \/ GetLastSyncedBlock
  \/ GetBlockNumber
  \/ GetCode
  \/ LocatorBlockNumber
  \/ TxCountAtMid
  \/ TxCountAtMidMinus1
  \/ CreateCursor
  \/ QueryFilter
  \/ GetBlock
  \/ BatchSaveLoad
  \/ BatchSaveWrite
  \/ FindCursor
  \/ SaveCursor
  \/ Backoff

\* the chains searched by the locator: the head up to MaxSearchHead blocks
\* above the block the search starts from, the contract created at that
\* block, above it, or not yet at the head, with or without code
SearchFloor(c) == IF c.sepolia THEN SepoliaFloor ELSE 0

SearchChains(c) ==
  {[creationBlock |-> SearchFloor(c) + t, head |-> SearchFloor(c) + h, hasCode |-> code] :
     t \in 0..(MaxSearchHead + 1), h \in 0..MaxSearchHead, code \in BOOLEAN}

\* startEventIndexing up to the loop, with the locator
SearchNext ==
  \/ \E batchSize \in BatchSizes : StartEventIndexing(batchSize)
  \/ GetLastSyncedBlock
  \/ GetBlockNumber
  \/ GetCode
  \/ LocatorBlockNumber
  \/ TxCountAtMid
  \/ TxCountAtMidMinus1
  \/ CreateCursor

\* a backfill over a long chain whose upstream answers the calls of
\* indexTransferEvents with rate-limit signals, for the sizing of the batches
SizingBatchSizes == {200, 15, 9}

\* queryFilter or getBlock is rejected with a rate-limit signal
RateLimited ==
  /\ ix.pc \in {"queryFilter", "getBlock"}
  /\ ix.consecutiveFailures < MaxRateLimitStreak
  /\ IndexTransferEventsCatch(ix, RateLimitError)
  /\ UNCHANGED <<gwvars, rlvars, chain, config, transferEvents, syncState, contractCreationBlock, live,
                 sink, indexed, sameEventConflict, saveDone, invocations, faults>>

\* queryFilter is rejected with an error the gateway has let through to its
\* caller (request.reject(error)): one it did not take for a rate-limit
\* signal, or one whose retries are used up; the loop's catch classifies it
Surfaced(error) ==
  /\ ix.pc = "queryFilter"
  /\ ix.consecutiveFailures < MaxRateLimitStreak
  /\ IndexTransferEventsCatch([ix EXCEPT !.caught = {error}], error)
  /\ UNCHANGED <<gwvars, rlvars, chain, config, transferEvents, syncState, contractCreationBlock, live,
                 sink, indexed, sameEventConflict, saveDone, invocations, faults>>

\* a backfill whose log fetches are rejected with errors of every shape
ClassifyNext ==
  \/ \E batchSize \in BatchSizes : StartEventIndexing(batchSize)
  \/ GetLastSyncedBlock
  \/ GetBlockNumber
  \/ CreateCursor
  \/ QueryFilter
  \/ GetBlock
  \/ BatchSaveLoad
  \/ BatchSaveWrite
  \/ FindCursor
  \/ SaveCursor
  \/ Backoff
  \/ \E error \in ErrorShapes : Surfaced(error)

SizingNext ==
  \/ \E batchSize \in SizingBatchSizes : StartEventIndexing(batchSize)
  \/ GetLastSyncedBlock
  \/ GetBlockNumber
  \/ CreateCursor
  \/ QueryFilter
  \/ GetBlock
  \/ BatchSaveLoad
  \/ BatchSaveWrite
  \/ FindCursor
  \/ SaveCursor
  \/ Backoff
  \/ RateLimited

\* ------------------------------------------------------------------------
\* RequestQueueService
\* ------------------------------------------------------------------------

RequestIds == DOMAIN requests

\* the workloads: a burst of requests with few rate-limit answers, one
\* request with many rate-limit answers, and eth_chainId calls next to
\* another call with some rate-limit answers and other failures
Loads == {[requests |-> NumRequests, chainIds |-> 0, signals |-> BurstSignals, errors |-> 0],
          [requests |-> 1, chainIds |-> 0, signals |-> MaxSignals, errors |-> MaxErrors],
          [requests |-> NumChainId + 1, chainIds |-> NumChainId, signals |-> GateSignals,
           errors |-> MaxErrors]}
JitterChoices == {0, 500}

MethodOf(r) == requests[r].method

NewRequest == [method |-> "eth_getLogs", status |-> "new", attempts |-> 0, sends |-> 0,
               settled |-> 0, limited |-> 0, caching |-> FALSE, error |-> "none"]

GwInit(load) ==
  /\ requestQueue = <<>>
  /\ processingQueue = FALSE
  /\ requestsInFlight = 0
  /\ throttled = FALSE
  /\ throttleReleaseTime = 0
  /\ cachedChainId = {}
  /\ requests = [r \in 1..load.requests |->
                   IF r <= load.chainIds THEN [NewRequest EXCEPT !.method = "eth_chainId"]
                   ELSE NewRequest]
  /\ signals = load.signals
  /\ errors = load.errors
  /\ upstream = {}
  /\ retryTimers = [r \in {} |-> 0]
  /\ pump = [await |-> "none", timer |-> 0]

\* the part of the service state that processQueue reads and writes
Service ==
  [requestQueue |-> requestQueue, processingQueue |-> processingQueue,
   requestsInFlight |-> requestsInFlight, throttled |-> throttled,
   throttleReleaseTime |-> throttleReleaseTime, cachedChainId |-> cachedChainId,
   requests |-> requests, upstream |-> upstream, pump |-> pump]

\* a cap test that lets one more request through
AtCapacity_OffByOne(inFlight) == inFlight > maxConcurrentRequests

\* the test of the concurrency cap in the while loop
AtCapacity(inFlight) == inFlight >= maxConcurrentRequests

\* executeRequest up to its await of _originalSend
ExecuteRequest(s, r) ==
  [s EXCEPT !.upstream = s.upstream \cup {r},
            !.requests[r].sends = s.requests[r].sends + 1,
            !.requests[r].caching = (MethodOf(r) = "eth_chainId" /\ s.cachedChainId = {})]

\* the while loop of processQueue, run until it awaits a timer or exits
\* through the finally block
RECURSIVE PumpLoop(_)
RECURSIVE PumpDispatch(_)
PumpDispatch(s) ==
  IF AtCapacity(s.requestsInFlight)
  THEN [s EXCEPT !.pump = [await |-> "capacity", timer |-> CapPollDelay]]
  ELSE \* t is bound so that each turn of the loop computes its state once
       CHOOSE next \in
         {PumpLoop(ExecuteRequest(
            [t EXCEPT !.requestQueue = Tail(t.requestQueue),
                      !.requestsInFlight = t.requestsInFlight + 1],
            Head(t.requestQueue))) : t \in {s}} : TRUE

PumpLoop(s) ==
  IF Len(s.requestQueue) > 0
  THEN IF s.throttled /\ 0 < s.throttleReleaseTime
       THEN [s EXCEPT !.pump = [await |-> "throttle", timer |-> s.throttleReleaseTime]]
       ELSE PumpDispatch(s)
  ELSE [s EXCEPT !.processingQueue = FALSE, !.pump = [await |-> "none", timer |-> 0]]

\* a processQueue without the guard: every call runs the loop
ProcessQueue_Reentrant(s) == PumpLoop([s EXCEPT !.processingQueue = TRUE])

\* a processQueue that takes a processor to be running and returns
ProcessQueue_Stuck(s) == s

\* processQueue()
ProcessQueue(s) ==
  IF s.processingQueue THEN s
  ELSE PumpLoop([s EXCEPT !.processingQueue = TRUE])

\* the service state after a run of processQueue
Install(s) ==
  \E t \in {s} :
    /\ requestQueue' = t.requestQueue
    /\ processingQueue' = t.processingQueue
    /\ requestsInFlight' = t.requestsInFlight
    /\ throttled' = t.throttled
    /\ throttleReleaseTime' = t.throttleReleaseTime
    /\ cachedChainId' = t.cachedChainId
    /\ requests' = t.requests
    /\ upstream' = t.upstream
    /\ pump' = t.pump

\* an interceptor that never serves the cached value
Memoized_Never(method, cache) == FALSE

\* the test of the interceptor: method === 'eth_chainId' && this.cachedChainId
Memoized(method, cache) == method = "eth_chainId" /\ cache # {}

\* the interceptor installed on provider.send
Send(r) ==
  /\ requests[r].status = "new"
  /\ \A o \in RequestIds : o < r /\ MethodOf(o) = MethodOf(r) => requests[o].status # "new"
  /\ IF Memoized(MethodOf(r), cachedChainId)
     THEN Install([Service EXCEPT !.requests[r].status = "resolved",
                                  !.requests[r].settled = 1])
     ELSE Install(ProcessQueue(
            [Service EXCEPT !.requestQueue = Append(requestQueue, r),
                            !.requests[r].status = "active"]))
  /\ UNCHANGED <<retryTimers, signals, errors, ixvars, rlvars>>

\* the pump's setTimeout fires
PumpWake ==
  /\ pump.await # "none"
  /\ pump.timer = 0
  /\ IF pump.await = "throttle"
     THEN Install(PumpDispatch([Service EXCEPT !.throttled = FALSE]))
     ELSE Install(PumpLoop(Service))
  /\ UNCHANGED <<retryTimers, signals, errors, ixvars, rlvars>>

\* a test that takes every failure for a rate-limit signal
isRateLimit_Any(error) == TRUE

\* the rate-limit test of the catch block
isRateLimit(error) == error.status429 \/ error.body429 \/ error.msgTooMany

\* retry tests that are off by one
MayRetry_OneFewer(attempts) == attempts < maxRetries - 1
MayRetry_OneMore(attempts) == attempts <= maxRetries

\* the retry test of the catch block
MayRetry(attempts) == attempts < maxRetries

\* Math.min(baseDelay * 2^attempts + Math.random() * 1000, 30000)
RetryDelay(attempts, jitter) == Min(baseDelay * Pow2(attempts) + jitter, MaxDelay)

\* _originalSend resolves: executeRequest resolves the caller, then the
\* finally callback releases the slot
Succeed(r) ==
  /\ r \in upstream
  /\ upstream' = upstream \ {r}
  /\ requests' = [requests EXCEPT ![r].status = "resolved",
                                  ![r].settled = requests[r].settled + 1]
  /\ cachedChainId' = IF requests[r].caching THEN {"0xaa36a7"} ELSE cachedChainId
  /\ requestsInFlight' = requestsInFlight - 1
  /\ UNCHANGED <<requestQueue, processingQueue, throttled, throttleReleaseTime,
                 retryTimers, pump, signals, errors, ixvars, rlvars>>

\* a slot that is given back only when the request is settled
ReleaseSlot_HeldForRetry(inFlight, retrying) ==
  IF retrying THEN inFlight ELSE inFlight - 1

\* .finally(() => { this.requestsInFlight--; }) after executeRequest has
\* rejected the request or has set its retry timer
ReleaseSlot(inFlight, retrying) == inFlight - 1

\* _originalSend rejects: the catch block of executeRequest, then the
\* finally callback releases the slot
Fail(r, error, jitter) ==
  /\ r \in upstream
  /\ IF error.kind = "rate-limit"
     THEN signals > 0 /\ signals' = signals - 1 /\ errors' = errors
     ELSE errors > 0 /\ errors' = errors - 1 /\ signals' = signals
  /\ upstream' = upstream \ {r}
  /\ requestsInFlight' = ReleaseSlot(requestsInFlight,
                                      isRateLimit(error) /\ MayRetry(requests[r].attempts))
  /\ IF isRateLimit(error) /\ MayRetry(requests[r].attempts)
     THEN LET delay == RetryDelay(requests[r].attempts + 1, jitter) IN
          /\ requests' = [requests EXCEPT ![r].attempts = requests[r].attempts + 1,
                                          ![r].limited = requests[r].limited + 1]
          /\ throttled' = TRUE
          /\ throttleReleaseTime' = delay
          /\ retryTimers' = [k \in DOMAIN retryTimers \cup {r} |->
                               IF k = r THEN delay ELSE retryTimers[k]]
     ELSE /\ requests' = [requests EXCEPT ![r].status = "rejected",
                                          ![r].settled = requests[r].settled + 1,
                                          ![r].limited = requests[r].limited +
                                                           (IF isRateLimit(error) THEN 1 ELSE 0),
                                          ![r].error = error.kind]
          /\ UNCHANGED <<throttled, throttleReleaseTime, retryTimers>>
  /\ UNCHANGED <<requestQueue, processingQueue, cachedChainId, pump, ixvars, rlvars>>

\* the re-queue setTimeout of a rate-limited request fires
Requeue(r) ==
  /\ r \in DOMAIN retryTimers
  /\ retryTimers[r] = 0
  /\ retryTimers' = [k \in DOMAIN retryTimers \ {r} |-> retryTimers[k]]
  /\ Install(ProcessQueue([Service EXCEPT !.requestQueue = Append(requestQueue, r)]))
  /\ UNCHANGED <<signals, errors, ixvars, rlvars>>

\* time passes until the next timer is due
PendingTimers ==
  {retryTimers[r] : r \in DOMAIN retryTimers} \cup
  (IF pump.await # "none" THEN {pump.timer} ELSE {})

Advance ==
  /\ PendingTimers # {}
  /\ \A t \in PendingTimers : t > 0
  /\ LET d == CHOOSE t \in PendingTimers : \A o \in PendingTimers : t <= o IN
     /\ retryTimers' = [r \in DOMAIN retryTimers |-> retryTimers[r] - d]
     /\ pump' = IF pump.await # "none" THEN [pump EXCEPT !.timer = pump.timer - d] ELSE pump
     /\ throttleReleaseTime' = Max(throttleReleaseTime - d, 0)
  /\ UNCHANGED <<requestQueue, processingQueue, requestsInFlight, throttled,
                 cachedChainId, requests, upstream, signals, errors, ixvars, rlvars>>

GatewayNext ==
  \/ \E r \in RequestIds : Send(r)
  \/ PumpWake
  \/ \E r \in RequestIds : Succeed(r)
  \/ \E r \in RequestIds, error \in UpstreamErrors, jitter \in JitterChoices :
       Fail(r, error, jitter)
  \/ \E r \in RequestIds : Requeue(r)
  \/ Advance

\* ------------------------------------------------------------------------
\* EthereumService.subscribeToTransferEvents: the handler of the monolithic
\* service, which is the one above up to the save of the event and then
\* updates realtime-sync by findOne, compare and save
\* ------------------------------------------------------------------------
MonoUnchanged ==
  UNCHANGED <<gwvars, rlvars, chain, config, transferEvents, isIndexing,
              contractCreationBlock, ix, skipped, indexed, sameEventConflict, saveDone,
              invocations, faults>>

\* callback(transferEvent) at the end of the handler
MonoCallback(l) ==
  /\ live' = [live EXCEPT ![l].pc = "done", ![l].loaded = {}]
  /\ sink' = sink \cup {NewTransferEvent(l)}

\* realtimeSyncState && transferEvent.blockNumber > realtimeSyncState.lastSyncedBlock
MonoCompare(l, row) ==
  IF row # {} /\ (\A v \in row : l.blockNumber > v)
  THEN live' = [live EXCEPT ![l].pc = "monoUpdate", ![l].loaded = row] /\ sink' = sink
  ELSE MonoCallback(l)

\* await syncStateRepository.findOne({ where: { id: 'realtime-sync' } }) returns
MonoFindOne(l) ==
  /\ live[l].pc = "upsert"
  /\ IF HasCursor("realtime-sync")
     THEN MonoCompare(l, {syncState["realtime-sync"]})
     ELSE live' = [live EXCEPT ![l].pc = "monoCreateLoad"] /\ sink' = sink
  /\ UNCHANGED syncState
  /\ MonoUnchanged

\* syncStateRepository.save(newSyncState): the row is looked up by its id
MonoCreateLoad(l) ==
  /\ live[l].pc = "monoCreateLoad"
  /\ live' = [live EXCEPT ![l].pc = "monoCreateWrite",
                          ![l].loaded = Cursor(syncState, "realtime-sync")]
  /\ UNCHANGED <<syncState, sink>>
  /\ MonoUnchanged

\* syncStateRepository.save(newSyncState): a row found by the lookup is
\* UPDATEd, otherwise the row is INSERTed; an INSERT that hits the primary
\* key throws and the handler calls findOne again. After a save that went
\* through, realtimeSyncState is still null and the callback is called
MonoCreateWrite(l) ==
  /\ live[l].pc = "monoCreateWrite"
  /\ IF live[l].loaded = {} /\ HasCursor("realtime-sync")
     THEN /\ live' = [live EXCEPT ![l].pc = "monoRefetch"]
          /\ UNCHANGED <<syncState, sink>>
     ELSE /\ syncState' = SaveSyncState(syncState, "realtime-sync", l.blockNumber)
          /\ MonoCallback(l)
  /\ MonoUnchanged

\* the findOne of the inner catch returns
MonoRefetch(l) ==
  /\ live[l].pc = "monoRefetch"
  /\ MonoCompare(l, Cursor(syncState, "realtime-sync"))
  /\ UNCHANGED syncState
  /\ MonoUnchanged

\* await syncStateRepository.save(realtimeSyncState) returns: the row the
\* handler read is written back with the block of its event
MonoUpdate(l) ==
  /\ live[l].pc = "monoUpdate"
  /\ syncState' = SaveSyncState(syncState, "realtime-sync", l.blockNumber)
  /\ MonoCallback(l)
  /\ MonoUnchanged

MonolithNext ==
  \/ \E l \in ChainLogs : Deliver(l)
  \/ \E l \in ChainLogs : LiveSaveLoad(l)
  \/ \E l \in ChainLogs : LiveSaveWrite(l)
  \/ \E l \in ChainLogs : MonoFindOne(l)
  \/ \E l \in ChainLogs : MonoCreateLoad(l)
  \/ \E l \in ChainLogs : MonoCreateWrite(l)
  \/ \E l \in ChainLogs : MonoRefetch(l)
  \/ \E l \in ChainLogs : MonoUpdate(l)

\* ------------------------------------------------------------------------
\* RateLimiter.middleware and RateLimiter.cleanUp (src/middleware)
\* ------------------------------------------------------------------------
\* constructor arguments, in ticks of the clock and requests per window
Limiters == [windowMs : {2}, maxRequests : {1, 2}]

\* the limiter of a deployment whose API receives no request
QuietLimiter == [windowMs |-> 2, maxRequests |-> 2]

\* values of req.ip; "" stands for a request without one
ClientIps == {"127.0.0.1", "192.168.1.1", ""}

RlInit(limiters) ==
  /\ limiter \in limiters
  /\ ipRecords = << >>
  /\ clock = 0
  /\ served = << >>

\* const ip = req.ip || 'unknown'
ClientKey(ip) == IF ip = "" THEN "unknown" ELSE ip

\* this.ipRecords.get(ip) || { count: 0, lastReset: now }
RecordOf(key, now) ==
  IF key \in DOMAIN ipRecords THEN ipRecords[key] ELSE [count |-> 0, lastReset |-> now]

\* now - record.lastReset > this.windowMs
WindowPassed(now, lastReset, windowMs) == now - lastReset > windowMs

\* a limit test that lets one more request through
Exceeded_OneMore(count, maxRequests) == count > maxRequests + 1

\* record.count > this.maxRequests
Exceeded(count, maxRequests) == count > maxRequests

\* the middleware handles one request: the record is reset or counted up
\* and stored, then the request is answered with 429 or handed to next()
Middleware(ip) ==
  /\ Len(served) < MaxCalls
  /\ LET key == ClientKey(ip)
         now == clock
         record == RecordOf(key, now)
         reset == IF WindowPassed(now, record.lastReset, limiter.windowMs)
                  THEN [count |-> 0, lastReset |-> now]
                  ELSE record
         counted == [reset EXCEPT !.count = reset.count + 1]
         exceeded == Exceeded(counted.count, limiter.maxRequests)
     IN /\ ipRecords' = [k \in DOMAIN ipRecords \cup {key} |->
                           IF k = key THEN counted ELSE ipRecords[k]]
        /\ served' = Append(served,
                       [ip |-> key, now |-> now,
                        status |-> IF exceeded THEN 429 ELSE 200,
                        next |-> ~exceeded,
                        remaining |-> Max(0, limiter.maxRequests - counted.count)])
  /\ UNCHANGED <<limiter, clock, ixvars, gwvars>>

\* cleanUp(): the records whose window has passed are deleted
CleanUp ==
  /\ \E k \in DOMAIN ipRecords :
       WindowPassed(clock, ipRecords[k].lastReset, limiter.windowMs)
  /\ ipRecords' = [k \in {j \in DOMAIN ipRecords :
                             ~WindowPassed(clock, ipRecords[j].lastReset, limiter.windowMs)}
                    |-> ipRecords[k]]
  /\ UNCHANGED <<limiter, clock, served, ixvars, gwvars>>

\* a millisecond tick of Date.now()
Tick ==
  /\ clock < MaxClock
  /\ clock' = clock + 1
  /\ UNCHANGED <<limiter, ipRecords, served, ixvars, gwvars>>

RateLimiterNext ==
  \/ \E ip \in ClientIps : Middleware(ip)
  \/ CleanUp
  \/ Tick

\* ------------------------------------------------------------------------
\* Specifications
\* ------------------------------------------------------------------------
NoLoad == [requests |-> 0, chainIds |-> 0, signals |-> 0, errors |-> 0]

Init == IxInit(Configured, {DefaultChain}) /\ GwInit(NoLoad) /\ RlInit({QuietLimiter})

Spec == Init /\ [][Next]_vars

EntityStoreInit ==
  IxInit(Synchronized, {DefaultChain}) /\ GwInit(NoLoad) /\ RlInit({QuietLimiter})

EntityStoreSpec == EntityStoreInit /\ [][Next]_vars

MonolithSpec == EntityStoreInit /\ [][MonolithNext]_vars

ClassifySpec == Init /\ [][ClassifyNext]_vars

LocatorInit == IxInit(Searching, {DefaultChain, NoCode(DefaultChain)}) /\ GwInit(NoLoad) /\ RlInit({QuietLimiter})

LocatorSpec == LocatorInit /\ [][LocatorNext]_vars

SearchInit ==
  /\ \E c \in Searching : IxInit({c}, SearchChains(c))
  /\ GwInit(NoLoad) /\ RlInit({QuietLimiter})

SearchSpec == SearchInit /\ [][SearchNext]_vars

SizingInit == IxInit(Configured, {LongChain}) /\ GwInit(NoLoad) /\ RlInit({QuietLimiter})

SizingSpec == SizingInit /\ [][SizingNext]_vars

\* an await of the running startEventIndexing returns: an upstream call, a
\* store operation or a sleep
BackfillStep ==
  \/ GetLastSyncedBlock
  \/ GetBlockNumber
  \/ CreateCursor
  \/ QueryFilter
  \/ GetBlock
  \/ BatchSaveLoad
  \/ BatchSaveWrite
  \/ FindCursor
  \/ SaveCursor
  \/ Backoff

\* every await of the run returns in the end
BackfillFairness == WF_vars(BackfillStep)

SizingLiveSpec == SizingInit /\ [][SizingNext]_vars /\ BackfillFairness

RateLimiterInit ==
  IxInit(Configured, {DefaultChain}) /\ GwInit(NoLoad) /\ RlInit(Limiters)

RateLimiterSpec == RateLimiterInit /\ [][RateLimiterNext]_vars

GatewayInit ==
  /\ IxInit(Configured, {DefaultChain})
  /\ \E load \in Loads : GwInit(load)
  /\ RlInit({QuietLimiter})

GatewaySpec == GatewayInit /\ [][GatewayNext]_vars

\* the upstream answers a call it was sent
Answer == \E r \in RequestIds : Succeed(r)

\* time passes or a due timer of the event loop fires
Timers ==
  \/ PumpWake
  \/ Advance
  \/ \E r \in RequestIds : Requeue(r)

\* the upstream answers the calls it was sent and the timers fire
GatewayFairness == WF_vars(Answer) /\ WF_vars(Timers)

GatewayLiveSpec == GatewayInit /\ [][GatewayNext]_vars /\ GatewayFairness

\* ------------------------------------------------------------------------
\* Properties
\* ------------------------------------------------------------------------
InLoop == ix.pc \in {"queryFilter", "getBlock", "saveLoad", "saveWrite",
                     "findCursor", "saveCursor", "backoff"}


\* C1: during a backfill run every block from the run's start block up to
\* batch-sync.lastSyncedBlock lies in a range for which indexTransferEvents
\* returned, that is, whose events were saved.
C1_CursorCoversOnlySavedBlocks ==
  ((InLoop \/ (ix.pc = "idle" /\ ix.startBlock > 0)) /\ HasCursor("batch-sync")) =>
    \A b \in ix.startBlock..syncState["batch-sync"] :
      \E range \in indexed : range[1] <= b /\ b <= range[2]

\* C2: no step lowers or removes batch-sync.lastSyncedBlock, within a run and
\* across the runs that resume from the stored row.
C2_BatchCursorNeverDecreases ==
  [][HasCursor("batch-sync") =>
       /\ "batch-sync" \in DOMAIN syncState'
       /\ syncState'["batch-sync"] >= syncState["batch-sync"]]_vars

\* a resumed run has advanced the cursor after an earlier run skipped a range
C2_Witness ==
  /\ invocations = 2 /\ ix.resuming /\ skipped # {}
  /\ HasCursor("batch-sync")
  /\ syncState["batch-sync"] >= ix.startBlock

\* C3: no step lowers or removes realtime-sync.lastSyncedBlock, whatever the
\* order in which the handlers of the live events run their upserts.
C3_RealtimeCursorNeverDecreases ==
  [][HasCursor("realtime-sync") =>
       /\ "realtime-sync" \in DOMAIN syncState'
       /\ syncState'["realtime-sync"] >= syncState["realtime-sync"]]_vars

\* a handler ran its upsert with a block below the stored one: a no-op
C3_Witness ==
  \E l \in ChainLogs :
    /\ live[l].pc = "done" /\ live[l].stale
    /\ l.blockNumber < syncState["realtime-sync"]

\* C4: batch-sync is set to toBlock only by the step that follows a returned
\* indexTransferEvents(fromBlock, toBlock), with the events of the range in
\* the store; realtime-sync is changed only by the upsert of a handler whose
\* event has been saved, and to that event's block.
C4_CursorWrittenAfterSave ==
  [][/\ (Cursor(syncState', "batch-sync") # Cursor(syncState, "batch-sync")
         /\ ix.pc # "createCursor") =>
          /\ ix.pc = "saveCursor"
          /\ syncState'["batch-sync"] = ix.toBlock
          /\ <<ix.fromBlock, ix.toBlock>> \in indexed
          /\ \A l \in LogsIn(ix.fromBlock, ix.toBlock) :
               l.transactionHash \in StoredKeys
     /\ (Cursor(syncState', "realtime-sync") # Cursor(syncState, "realtime-sync")) =>
          \E l \in ChainLogs :
            /\ live[l].pc = "upsert"
            /\ syncState'["realtime-sync"] = l.blockNumber
            /\ NewTransferEvent(l) \in saveDone
            /\ l.transactionHash \in StoredKeys]_vars

\* both cursors stand on the block of a saved event
C4_Witness ==
  /\ HasCursor("batch-sync") /\ HasCursor("realtime-sync")
  /\ \E range \in indexed :
       /\ range[2] = syncState["batch-sync"]
       /\ LogsIn(range[1], range[2]) # {}
  /\ \E l \in ChainLogs : live[l].pc = "done" /\ live[l].error = "none"
                          /\ l.blockNumber = syncState["realtime-sync"]

\* C5: two Transfer logs of one transaction that have both been given to
\* save calls which the store has answered are two rows of the table.
C5_OneRowPerLog ==
  \A e1, e2 \in saveDone :
    (e1 # e2 /\ e1.transactionHash = e2.transactionHash) =>
      {e1, e2} \subseteq RowSet(transferEvents)

\* C6: a backfill save of a batch whose keys are all stored already leaves
\* the number of rows unchanged.
C6_ResaveAddsNoRow ==
  [][(ix.pc = "saveWrite" /\ ix'.pc # "saveWrite"
      /\ KeySet(ix.events) \subseteq StoredKeys) =>
        Len(transferEvents') = Len(transferEvents)]_vars

\* a second run has saved again the range whose events the first run saved
\* before its cursor update failed
C6_Witness ==
  /\ invocations = 2 /\ ix.pc = "findCursor" /\ ix.events # {} /\ ix.resaved
  /\ ix.events \subseteq RowSet(transferEvents)
  /\ <<ix.fromBlock, ix.toBlock>> \in skipped

\* C7: no save of the backfill and no save of a live handler fails on a row
\* of the same event written by the other, and no event has two rows.
C7_NoWriterFailsOnSameEvent ==
  /\ sameEventConflict = {}
  /\ \A i, j \in DOMAIN transferEvents : transferEvents[i] = transferEvents[j] => i = j

\* C8: never more than maxConcurrentRequests calls outstanding upstream.
C8_InFlightBound ==
  /\ requestsInFlight <= maxConcurrentRequests
  /\ Cardinality(upstream) <= maxConcurrentRequests

\* the cap is reached with a request waiting, after a retry
C8_Witness ==
  /\ requestsInFlight = maxConcurrentRequests
  /\ Len(requestQueue) > 0
  /\ pump.await = "capacity"
  /\ \E r \in RequestIds : requests[r].attempts > 0

\* C9: a request resolved by the upstream has been sent once more than it
\* was rate-limited, and a request is rejected with a rate-limit error only
\* after more than maxRetries rate-limit answers.
C9_RateLimitMasked ==
  \A r \in RequestIds :
    /\ (requests[r].status = "resolved" /\ requests[r].sends > 0) =>
         requests[r].sends = requests[r].limited + 1
    /\ (requests[r].status = "rejected" /\ requests[r].error = "rate-limit") =>
         requests[r].limited > maxRetries
    /\ requests[r].settled <= 1

\* a request rate-limited maxRetries times is resolved by its next send
C9_Witness ==
  \E r \in RequestIds :
    /\ requests[r].status = "resolved"
    /\ requests[r].limited = maxRetries
    /\ requests[r].sends = maxRetries + 1

InQueue(r) == \E i \in DOMAIN requestQueue : requestQueue[i] = r

\* C10: attempts <= maxRetries, at most maxRetries + 1 sends, and a request
\* rate-limited with attempts = maxRetries is rejected with that error and
\* is in no queue, timer or upstream call any more.
C10_RetriesBounded ==
  \A r \in RequestIds :
    /\ requests[r].attempts <= maxRetries
    /\ requests[r].sends <= maxRetries + 1
    /\ requests[r].limited > maxRetries =>
         /\ requests[r].status = "rejected"
         /\ requests[r].error = "rate-limit"
    /\ requests[r].status = "rejected" =>
         ~InQueue(r) /\ r \notin upstream /\ r \notin DOMAIN retryTimers

\* a request has used up its retries and has been rejected
C10_Witness ==
  \E r \in RequestIds :
    /\ requests[r].status = "rejected" /\ requests[r].error = "rate-limit"
    /\ requests[r].attempts = maxRetries
    /\ requests[r].sends = maxRetries + 1

\* C11: a failure that is no rate-limit signal rejects the caller in the same
\* step: no further send, attempts unchanged, nothing re-queued, and the
\* throttle gate as it was.
C11_OtherErrorsPropagate ==
  [][errors' < errors =>
       \E r \in upstream :
         /\ r \notin upstream'
         /\ requests'[r].status = "rejected" /\ requests'[r].settled = 1
         /\ requests'[r].attempts = requests[r].attempts
         /\ requests'[r].sends = requests[r].sends
         /\ throttled' = throttled /\ throttleReleaseTime' = throttleReleaseTime
         /\ retryTimers' = retryTimers /\ requestQueue' = requestQueue]_vars

\* a request that was retried after a rate-limit answer is rejected with
\* another error while the gate is closed
C11_Witness ==
  \E r \in RequestIds :
    /\ requests[r].status = "rejected" /\ requests[r].error = "server"
    /\ requests[r].attempts > 0 /\ requests[r].sends = requests[r].attempts + 1
    /\ throttled /\ throttleReleaseTime > 0

\* C12: while the gate is closed (throttled, release time not yet reached) no
\* step sends a request upstream.
C12_NoDispatchWhileGateClosed ==
  [][(throttled /\ throttleReleaseTime > 0) =>
       \A r \in RequestIds : requests'[r].sends = requests[r].sends]_vars

\* C13: every rate-limit answer of the upstream leaves the gate closed, with a
\* release time in the future, whether or not the request is retried.
C13_EverySignalClosesGate ==
  [][signals' < signals => (throttled' /\ throttleReleaseTime' > 0)]_vars

Settled(r) == requests[r].status \in {"resolved", "rejected"}

\* where a request is: waiting in the queue, outstanding upstream, or waiting
\* for its re-queue timer
Places(r) ==
  (IF InQueue(r) THEN 1 ELSE 0) + (IF r \in upstream THEN 1 ELSE 0)
    + (IF r \in DOMAIN retryTimers THEN 1 ELSE 0)

Lifecycle(r) ==
  /\ requests[r].status = "new" =>
       requests[r].settled = 0 /\ requests[r].sends = 0 /\ Places(r) = 0
  /\ requests[r].status = "active" => requests[r].settled = 0 /\ Places(r) = 1
  /\ Settled(r) => requests[r].settled = 1 /\ Places(r) = 0
  /\ Cardinality({i \in DOMAIN requestQueue : requestQueue[i] = r}) <= 1

\* C14: a submitted request is in the queue, in flight or waiting to be
\* re-queued until it is settled; it is settled once and stays as it was
\* settled; and, the upstream answering and the timers firing, every
\* submitted request is settled in the end.
C14_SettledExactlyOnce ==
  /\ [](\A r \in RequestIds : Lifecycle(r))
  /\ [][\A r \in RequestIds : Settled(r) => requests'[r] = requests[r]]_vars
  /\ <>[](\A r \in RequestIds : requests[r].status # "active")

\* both ends of the lifecycle: one request rejected after its retries were
\* used up (or after another failure), one resolved after a retry
C14_Witness ==
  \E r1, r2 \in RequestIds :
    /\ requests[r1].status = "rejected" /\ requests[r1].settled = 1
    /\ requests[r2].status = "resolved" /\ requests[r2].attempts > 0
    /\ requests[r2].settled = 1

\* C15: of the eth_chainId calls submitted before any of them completed, at
\* most one is outstanding at the upstream: the others wait for its response.
C15_OneChainIdInvocation ==
  Cardinality({r \in upstream : MethodOf(r) = "eth_chainId"}) <= 1

ChainIdCalls == {r \in RequestIds : MethodOf(r) = "eth_chainId"}

\* C16: once an eth_chainId call has been answered the value is memoized;
\* an eth_chainId call submitted while the value is memoized is resolved by
\* the interceptor, with no entry in the queue and no upstream send; and the
\* memoized value changes only when the upstream answers an eth_chainId call,
\* never when one fails.
C16_MemoizedChainId ==
  /\ [](\A r \in ChainIdCalls :
          requests[r].status = "resolved" /\ requests[r].sends > 0 => cachedChainId # {})
  /\ [][/\ \A r \in ChainIdCalls :
             (/\ cachedChainId # {}
              /\ requests[r].status = "new"
              /\ requests'[r].status # "new")
             => /\ requests'[r].status = "resolved"
                /\ requests'[r].sends = 0
                /\ requestQueue' = requestQueue
                /\ upstream' = upstream
                /\ cachedChainId' = cachedChainId
        /\ cachedChainId' # cachedChainId =>
             \E r \in ChainIdCalls \cap upstream : requests'[r].status = "resolved"
        /\ (signals' < signals \/ errors' < errors) => cachedChainId' = cachedChainId]_vars

\* an eth_chainId call that was answered after a rate-limit signal, and a
\* later one served from the memoized value
C16_Witness ==
  \E r1, r2 \in ChainIdCalls :
    /\ requests[r1].status = "resolved" /\ requests[r1].attempts > 0
    /\ requests[r2].status = "resolved" /\ requests[r2].sends = 0

\* a run of startEventIndexing has left the loop through its exit condition
Finished == ix.pc = "idle" /\ ix.startBlock > 0

RangeLength(range) == range[2] - range[1] + 1

RECURSIVE SumOfLengths(_)
SumOfLengths(ranges) ==
  IF ranges = {} THEN 0
  ELSE LET range == CHOOSE x \in ranges : TRUE IN
       RangeLength(range) + SumOfLengths(ranges \ {range})

\* the ranges of the run that failed after its last cursor write
FailedSinceLastAdvance == {range \in ix.failedRanges : range[1] > ix.lastAdvance}

C18_SkippedRangeNotRevisited ==
  /\ [][(InLoop /\ ix'.failedRanges # ix.failedRanges) =>
          /\ ix'.failedRanges = ix.failedRanges \cup {<<ix.fromBlock, ix.toBlock>>}
          /\ syncState' = syncState
          /\ InLoop' => ix'.fromBlock = ix.toBlock + 1
          /\ ~InLoop' => Finished' /\ ix.toBlock = ix.currentBlock]_vars
  /\ [](InLoop => \A range \in ix.failedRanges : ix.fromBlock > range[2])
  /\ []((InLoop \/ Finished) =>
          \A range \in ix.failedRanges :
            syncState["batch-sync"] < range[1] \/ ix.lastAdvance > range[2])

\* a run that has just skipped a range and goes on behind it
C18_Witness ==
  /\ InLoop
  /\ \E range \in ix.failedRanges :
       /\ ix.fromBlock = range[2] + 1
       /\ syncState["batch-sync"] < range[1]

\* the batch sizes of successive rate-limit failures, from 200 down
HalvingTable ==
  (200 :> 100) @@ (100 :> 50) @@ (50 :> 25) @@ (25 :> 12) @@ (12 :> 10) @@ (10 :> 10)

\* C19: a step in which a batch fails with a rate-limit signal halves the
\* batch size down to the floor of 10 when it was above 10 and keeps it
\* otherwise (200, 100, 50, 25, 12, 10, 10), and leaves fromBlock and the
\* cursor rows as they are; the attempt that follows the sleep is made for
\* the same fromBlock, with the cursor rows still unchanged.
C19_HalvingOnRateLimit ==
  /\ [][(InLoop /\ ix'.consecutiveFailures = ix.consecutiveFailures + 1) =>
          /\ ix'.currentBatchSize =
               IF ix.currentBatchSize > 10
               THEN (IF ix.currentBatchSize \div 2 > 10 THEN ix.currentBatchSize \div 2 ELSE 10)
               ELSE ix.currentBatchSize
          /\ ix.currentBatchSize \in DOMAIN HalvingTable =>
               ix'.currentBatchSize = HalvingTable[ix.currentBatchSize]
          /\ ix'.pc = "backoff"
          /\ ix'.fromBlock = ix.fromBlock
          /\ syncState' = syncState]_vars
  /\ [][ix.pc = "backoff" =>
          /\ ix'.pc = "queryFilter"
          /\ ix'.fromBlock = ix.fromBlock
          /\ ix'.currentBatchSize = ix.currentBatchSize
          /\ syncState' = syncState]_vars

\* the first range of a run that started with batches of 200 is retried at
\* the floor after six rate-limit failures in a row
C19_Witness ==
  /\ ix.pc = "queryFilter"
  /\ ix.batchSize = 200
  /\ ix.currentBatchSize = 10
  /\ ix.consecutiveFailures = 6
  /\ ix.fromBlock = ix.startBlock
  /\ syncState["batch-sync"] = ix.startBlock - 1

\* a step in which the loop goes on after a successful batch
SuccessStep ==
  /\ ix.pc \in {"findCursor", "saveCursor"}
  /\ ix'.pc = "queryFilter"
  /\ ix'.fromBlock = ix.toBlock + 1
  /\ ix'.consecutiveFailures = 0

InLocator == ix.pc \in {"getCode", "locatorBlockNumber", "txCountAtMid", "txCountAtMidMinus1"}

\* C21: a run that finds a batch-sync cursor c at startup takes c + 1 as its
\* start block, enters the loop at that block without calling the locator and
\* without creating a cursor row, requests no range that begins at or below
\* c, and, when none of its ranges fails after its last cursor write, leaves
\* the cursor at the head it read at startup.
C21_ResumeFromCursor ==
  /\ [][(ix.pc = "getLastSyncedBlock" /\ ix'.pc = "getBlockNumber" /\ HasCursor("batch-sync")) =>
          /\ ix'.resuming
          /\ ix'.startBlock = syncState["batch-sync"] + 1]_vars
  /\ [][(ix.pc = "getBlockNumber" /\ ix.resuming /\ ix'.pc # "idle") =>
          /\ ix'.pc = "queryFilter"
          /\ ix'.fromBlock = syncState["batch-sync"] + 1
          /\ syncState' = syncState]_vars
  /\ [](ix.resuming => /\ ~InLocator
                       /\ ix.pc # "createCursor"
                       /\ InLoop => ix.fromBlock >= ix.startBlock)
  /\ []((Finished /\ FailedSinceLastAdvance = {}) =>
          syncState["batch-sync"] = ix.currentBlock)

\* a resumed run, started from a cursor above 0 and below the head, that has
\* indexed a range and is about to write the cursor
C21_Witness ==
  /\ ix.pc = "saveCursor"
  /\ ix.resuming
  /\ ix.startBlock > 1
  /\ ix.startBlock <= ix.currentBlock
  /\ syncState["batch-sync"] = ix.startBlock - 1

\* C22: a run that finds no batch-sync row and has a configured start block
\* creates the row with the start block minus one before it requests its
\* first range, and a run of which no range was skipped returns with the
\* cursor at the head it read at startup.
C22_FreshStartReachesHead ==
  /\ [][(ix.pc = "createCursor" /\ ix'.pc \notin {"createCursor", "idle"}) =>
          /\ ~ix.resuming
          /\ ix.startBlock = config.START_BLOCK
          /\ syncState'["batch-sync"] = config.START_BLOCK - 1
          /\ ix'.pc = "queryFilter"
          /\ ix'.fromBlock = config.START_BLOCK]_vars
  /\ [](InLoop => HasCursor("batch-sync"))
  /\ []((Finished /\ ix.failedRanges = {}) => syncState["batch-sync"] = ix.currentBlock)

\* the first run of the service has returned after it indexed every range up
\* to the head
C22_Witness ==
  /\ Finished
  /\ invocations = 1
  /\ ix.failedRanges = {}
  /\ ix.startBlock = config.START_BLOCK
  /\ ix.lastAdvance = ix.currentBlock
  /\ syncState["batch-sync"] = ix.currentBlock

\* C23: the awaits of a run returning in the end and the rate-limit failures
\* of a range being finitely many, a started run returns; a run that is in
\* the loop leaves it only in a step that moves fromBlock behind the head
\* read at startup, and inside the loop that head is never replaced and
\* fromBlock never exceeds it.
C23_RunEndsAtStartupHead ==
  /\ (isIndexing ~> ~isIndexing)
  /\ [][(InLoop /\ ~InLoop') =>
          /\ Finished'
          /\ ~isIndexing'
          /\ ix.pc # "backoff"
          /\ ix.toBlock + 1 > ix.currentBlock
          /\ ix'.currentBlock = ix.currentBlock]_vars
  /\ [][(InLoop /\ InLoop') => ix'.currentBlock = ix.currentBlock]_vars
  /\ [](InLoop => ix.fromBlock <= ix.currentBlock /\ ix.toBlock <= ix.currentBlock)

\* a run over the long chain has returned after it wrote the cursor for its
\* last range, which ended at the head
C23_Witness ==
  /\ Finished
  /\ ~isIndexing
  /\ ix.currentBlock = LongChainHead
  /\ ix.lastAdvance = ix.currentBlock

\* C24: while an invocation of startEventIndexing is running, a further
\* invocation changes nothing (no call, no write, the guard stays set); a
\* run is started only when none is running, the guard is set for as long as
\* the run has not returned, and it is cleared only by the return of that run.
C24_SingleRunner ==
  /\ [](isIndexing => ~ENABLED <<\E batchSize \in BatchSizes : StartEventIndexing(batchSize)>>_vars)
  /\ [](isIndexing <=> ix.pc # "idle")
  /\ [][invocations' # invocations =>
          /\ ~isIndexing /\ isIndexing'
          /\ ix.pc = "idle" /\ ix'.pc = "getLastSyncedBlock"
          /\ invocations' = invocations + 1]_vars
  /\ [][(isIndexing /\ ~isIndexing') => ix.pc # "idle" /\ ix'.pc = "idle"]_vars

\* a run is in its loop and startEventIndexing can be invoked once more
C24_Witness ==
  /\ isIndexing
  /\ InLoop
  /\ invocations < MaxInvocations
  /\ ENABLED (\E batchSize \in BatchSizes : StartEventIndexing(batchSize))

\* C25: when the address holds code, no call has failed, and the contract
\* was created above the block the search starts from and not above the head,
\* the block the locator returns and caches is the creation block.
C25_SearchFindsCreationBlock ==
  (/\ chain.hasCode
   /\ faults = 0
   /\ StartSearchBlock < chain.creationBlock
   /\ chain.creationBlock <= chain.head
   /\ contractCreationBlock # {})
  => /\ contractCreationBlock = {chain.creationBlock}
     /\ ix.pc = "createCursor" => ix.startBlock = chain.creationBlock

\* on Sepolia the locator has returned a creation block that was neither the
\* first block it probed nor the block next to the start of the search
C25_Witness ==
  /\ ix.pc = "createCursor"
  /\ config.sepolia
  /\ chain.hasCode
  /\ faults = 0
  /\ chain.creationBlock > StartSearchBlock + 1
  /\ chain.creationBlock # (StartSearchBlock + chain.head) \div 2
  /\ contractCreationBlock = {chain.creationBlock}
  /\ ix.startBlock = chain.creationBlock

\* C26: when a call the locator made has failed, the block it returns and
\* caches is the fallback: START_BLOCK if that is positive and 1 otherwise
\* (the first run reaches the creation of the cursor only if its own calls
\* succeeded, so a failure counted by then is a failure of a locator call).
C26_FallbackOnAnyFailure ==
  (ix.pc = "createCursor" /\ invocations = 1 /\ faults > 0)
  => /\ ix.startBlock = FallbackStartBlock
     /\ contractCreationBlock = {FallbackStartBlock}

\* C27: when the code at the contract address is empty the locator makes no
\* search: it asks neither for the head of the chain nor for a transaction
\* count; it returns the default start block (START_BLOCK if positive, else
\* 1), the run goes on instead of ending, and its first range starts there.
C27_EmptyCodeNoSearch ==
  /\ [](~chain.hasCode =>
          ix.pc \notin {"locatorBlockNumber", "txCountAtMid", "txCountAtMidMinus1"})
  /\ [][(ix.pc = "getCode" /\ ~chain.hasCode /\ ix'.pc # "getCode")
        => /\ isIndexing'
           /\ ix'.pc = "createCursor"
           /\ ix'.startBlock = (IF config.START_BLOCK > 0 THEN config.START_BLOCK ELSE 1)
           /\ contractCreationBlock' = {(IF config.START_BLOCK > 0 THEN config.START_BLOCK ELSE 1)}]_vars
  /\ [][(~chain.hasCode /\ ~ix.resuming /\ ix.pc = "createCursor"
         /\ ix'.pc = "queryFilter")
        => /\ ix'.fromBlock = (IF config.START_BLOCK > 0 THEN config.START_BLOCK ELSE 1)
           /\ syncState'["batch-sync"] = (IF config.START_BLOCK > 0 THEN config.START_BLOCK ELSE 1) - 1]_vars

\* the first range of a run whose getCode call answered with empty code
C27_Witness ==
  /\ ~chain.hasCode
  /\ faults = 0
  /\ invocations = 1
  /\ ix.pc = "queryFilter"
  /\ ~ix.resuming
  /\ ix.fromBlock = 1
  /\ contractCreationBlock = {1}

C29_SinkThrowIsContained ==
  /\ [][\A l \in ChainLogs :
          (live[l].pc = "upsert" /\ live'[l] # live[l] /\ faults' > faults
           /\ live'[l].error = "none")
          => /\ live'[l].pc = "done"
             /\ NewTransferEvent(l) \in sink'
             /\ transferEvents' = transferEvents
             /\ PrimaryKey(NewTransferEvent(l)) \in KeySet(RowSet(transferEvents'))
             /\ "realtime-sync" \in DOMAIN syncState'
             /\ syncState'["realtime-sync"] >= l.blockNumber
             /\ \A k \in ChainLogs \ {l} : live'[k] = live[k]
             /\ UNCHANGED <<ix, isIndexing>>]_vars
  /\ [](\A k \in ChainLogs :
          live[k].pc = "upsert"
          => ENABLED (LiveUpsert(k) /\ NewTransferEvent(k) \in sink'))

\* no backfill has run and the one failure was the throw of a callback: both
\* delivered events are in the sink, stored, and the realtime cursor is set
C29_Witness ==
  /\ invocations = 0
  /\ faults = 1
  /\ \A j \in ChainLogs : live[j].pc \in {"none", "done"} /\ live[j].error = "none"
  /\ \E l, k \in ChainLogs :
       /\ l # k
       /\ live[l].pc = "done" /\ live[k].pc = "done"
       /\ {NewTransferEvent(l), NewTransferEvent(k)} \subseteq sink
       /\ {PrimaryKey(NewTransferEvent(l)), PrimaryKey(NewTransferEvent(k))} \subseteq StoredKeys
  /\ "realtime-sync" \in DOMAIN syncState

\* the requests of one key served at or after a given instant
ServedSince(log, key, since) ==
  {i \in 1..Len(log) : log[i].ip = key /\ log[i].now >= since}

\* C30: for every key with a record, of the requests served since its
\* lastReset at most maxRequests were handed to next(); a request is handed to
\* next() exactly when it is among the first maxRequests of its window and
\* is answered with 429 otherwise; a request leaves the records of the other
\* keys as they were; the first request that arrives more than windowMs after
\* lastReset starts a window at its own instant and is handed to next(),
\* while a request or a cleanUp up to windowMs after lastReset keeps the
\* window.
C30_WindowAdmitsAtMostMax ==
  /\ [](\A key \in DOMAIN ipRecords :
          /\ Cardinality({i \in ServedSince(served, key, ipRecords[key].lastReset) :
                            served[i].next}) <= limiter.maxRequests
          /\ clock - ipRecords[key].lastReset <= limiter.windowMs
             => ipRecords[key].count
                  = Cardinality(ServedSince(served, key, ipRecords[key].lastReset)))
  /\ [][Len(served') = Len(served) + 1
        => LET e == served'[Len(served')]
               window == ServedSince(served', e.ip, ipRecords'[e.ip].lastReset)
           IN /\ e.next <=> Cardinality(window) <= limiter.maxRequests
              /\ e.next <=> e.status # 429
              /\ \A k \in DOMAIN ipRecords \ {e.ip} :
                   k \in DOMAIN ipRecords' /\ ipRecords'[k] = ipRecords[k]
              /\ (e.ip \in DOMAIN ipRecords
                  /\ clock - ipRecords[e.ip].lastReset > limiter.windowMs)
                 => /\ ipRecords'[e.ip] = [count |-> 1, lastReset |-> clock]
                    /\ e.next
              /\ (e.ip \in DOMAIN ipRecords
                  /\ clock - ipRecords[e.ip].lastReset <= limiter.windowMs)
                 => ipRecords'[e.ip].lastReset = ipRecords[e.ip].lastReset]_vars
  /\ [][\A key \in DOMAIN ipRecords :
          clock - ipRecords[key].lastReset <= limiter.windowMs
          => key \in DOMAIN ipRecords']_vars

\* one key has used up its window and was answered with 429, another key was
\* served meanwhile, and a request of the first key after the end of the
\* window was handed to next() again
C30_Witness ==
  \E i, j, k \in 1..Len(served) :
    /\ i < j /\ j < k
    /\ served[i].ip = served[k].ip
    /\ served[j].ip # served[i].ip
    /\ served[i].status = 429
    /\ served[j].next
    /\ served[k].next
    /\ served[k].now - served[i].now > limiter.windowMs

\* C31: the gateway has one pump. The pump is suspended at an await exactly
\* when processingQueue is set, and it is idle only with an empty queue. A
\* submission or a re-queue that finds the pump suspended only appends to
\* the queue: it dispatches nothing and leaves the pump's await as it is. A
\* submission or a re-queue that finds the pump idle runs it: the request
\* is sent to the upstream in the same step or the pump is left suspended
\* with the request queued.
C31_OnePumpNoLostWakeup ==
  /\ [](processingQueue <=> pump.await # "none")
  /\ [](~processingQueue => requestQueue = << >>)
  /\ [][\A r \in RequestIds :
          LET submitted == requests[r].status = "new" /\ requests'[r].status = "active"
              requeued == r \in DOMAIN retryTimers /\ r \notin DOMAIN retryTimers'
          IN (submitted \/ requeued)
             => IF processingQueue
                THEN /\ requestQueue' = Append(requestQueue, r)
                     /\ UNCHANGED <<pump, processingQueue, upstream, requestsInFlight,
                                    throttled>>
                ELSE \/ r \in upstream' /\ requestsInFlight' = requestsInFlight + 1
                     \/ /\ processingQueue'
                        /\ pump'.await # "none"
                        /\ requestQueue' = <<r>>]_vars

\* the pump is suspended at the throttle wait with two requests queued: the
\* later one was appended by a submission or a re-queue that found it running
C31_Witness ==
  /\ processingQueue
  /\ pump.await = "throttle"
  /\ Len(requestQueue) >= 2

\* C32: while a run is in its loop, its range satisfies startBlock <=
\* fromBlock <= toBlock <= currentBlock, currentBlock is the head read at
\* startup and does not change, and the toBlock of an attempt is the smaller
\* of fromBlock + currentBatchSize - 1 and currentBlock. A new attempt keeps fromBlock
\* after the sleep of a rate-limit failure and starts at the previous toBlock
\* + 1 otherwise, so it lies above every range the run has skipped and
\* above the last block the run has written into the cursor.
C32_RangesWithinBoundsAndDisjoint ==
  /\ [](InLoop
        => /\ ix.startBlock <= ix.fromBlock
           /\ ix.fromBlock <= ix.toBlock
           /\ ix.toBlock <= ix.currentBlock
           /\ ix.currentBlock = chain.head
           /\ ix.pc # "backoff"
              => ix.toBlock = IF ix.fromBlock + ix.currentBatchSize - 1 < ix.currentBlock
                              THEN ix.fromBlock + ix.currentBatchSize - 1
                              ELSE ix.currentBlock
           /\ \A range \in ix.failedRanges : range[2] < ix.fromBlock
           /\ ix.lastAdvance < ix.fromBlock)
  /\ [][(ix.pc = "backoff" /\ ix'.pc = "queryFilter")
        => ix'.fromBlock = ix.fromBlock /\ ix'.currentBlock = ix.currentBlock]_vars
  /\ [][(InLoop /\ ix.pc # "backoff" /\ ix'.pc = "queryFilter" /\ ix' # ix)
        => /\ ix'.fromBlock = ix.toBlock + 1
           /\ ix'.currentBlock = ix.currentBlock
           /\ \/ ix'.lastAdvance = ix.toBlock
              \/ <<ix.fromBlock, ix.toBlock>> \in ix'.failedRanges]_vars

\* a retry after a rate-limit failure, in a run that has already written the
\* cursor and skipped a range, with a range that ends below the head
C32_Witness ==
  /\ ix.pc = "queryFilter"
  /\ ix.consecutiveFailures > 0
  /\ ix.failedRanges # {}
  /\ ix.lastAdvance > 0
  /\ ix.toBlock < ix.currentBlock
  /\ ix.currentBatchSize < ix.batchSize

\* C33: a handler that has gone through its save and its cursor step leaves
\* a realtime-sync row whose lastSyncedBlock is at least the block of its
\* event.
C33_RealtimeRowAfterHandler ==
  \A l \in ChainLogs :
    live[l].pc = "done"
    => /\ "realtime-sync" \in DOMAIN syncState
       /\ syncState["realtime-sync"] >= l.blockNumber

\* C34: an invocation that set the guard ends with the guard cleared,
\* whatever fails. A failure of the cursor read, of the head fetch or of
\* the creation of the cursor ends the invocation with isIndexing false; a
\* failure inside the locator is absorbed there and the invocation goes on;
\* a failure inside the loop leaves the invocation in its loop or ends it
\* with isIndexing false. No invocation is ever at rest with the guard set.
C34_GuardClearedOnEveryExit ==
  /\ [](ix.pc = "idle" => ~isIndexing)
  /\ [][(ix.pc \in {"getLastSyncedBlock", "getBlockNumber", "createCursor"}
         /\ faults' > faults /\ ix' # ix)
        => ix'.pc = "idle" /\ ~isIndexing']_vars
  /\ [][(InLocator /\ faults' > faults /\ ix' # ix)
        => isIndexing' /\ ix'.pc # "idle"]_vars
  /\ [][(InLoop /\ faults' > faults /\ ix' # ix)
        => \/ isIndexing' /\ ix'.pc \in {"queryFilter", "backoff"}
           \/ ~isIndexing' /\ ix'.pc = "idle"]_vars
  /\ [][(isIndexing /\ ~isIndexing') => ix'.pc = "idle"]_vars

\* the creation of the cursor failed after the locator had returned: the
\* invocation is over and the guard is cleared
C34_Witness ==
  /\ invocations = 1
  /\ faults = 1
  /\ contractCreationBlock # {}
  /\ ix = Idle
  /\ ~isIndexing
  /\ "batch-sync" \notin DOMAIN syncState

\* C35: with the read-compare-save handlers of the monolithic service, no
\* step lowers realtime-sync.lastSyncedBlock, and once every delivered event
\* has been handled the row holds the largest block among them.
C35_MonolithCursorIsMax ==
  /\ [][HasCursor("realtime-sync")
        => syncState'["realtime-sync"] >= syncState["realtime-sync"]]_vars
  /\ []((\A l \in ChainLogs : live[l].pc \in {"none", "done"})
        => \A l \in ChainLogs :
             live[l].pc = "done"
             => HasCursor("realtime-sync") /\ syncState["realtime-sync"] >= l.blockNumber)

\* C36: the loop's catch agrees with the gateway on every error the gateway
\* lets through: an error the gateway takes for a rate-limit signal makes
\* the loop back off and keep its range, without a skip, and any other
\* error makes the loop skip the range without a backoff.
C36_ClassifiersAgree ==
  [][(ix.pc = "queryFilter" /\ faults' = faults
      /\ (ix'.pc = "backoff" \/ ix'.failedRanges # ix.failedRanges))
     => \A error \in ix'.caught :
          IF isRateLimit(error)
          THEN /\ ix'.pc = "backoff"
               /\ ix'.fromBlock = ix.fromBlock
               /\ skipped' = skipped
          ELSE /\ ix'.pc # "backoff"
               /\ <<ix.fromBlock, ix.toBlock>> \in skipped']_vars

\* C37: a batch attempt that fails at the log fetch, at a block-header fetch
\* or at the save (the step leaves indexTransferEvents through its catch:
\* the loop backs off, skips the range or ends) changes neither the stored
\* events nor any cursor row.
C37_FailedBatchPersistsNothing ==
  [][(/\ ix.pc \in {"queryFilter", "getBlock", "saveLoad", "saveWrite"}
      /\ ix' # ix
      /\ ix'.pc \notin {"getBlock", "saveLoad", "saveWrite", "findCursor"})
     => /\ transferEvents' = transferEvents
        /\ syncState' = syncState]_vars

\* a range was skipped after its save threw: the store holds earlier events,
\* none of them is the event of the failed batch, and the cursor is below it
C37_Witness ==
  \E rg \in skipped : \E e \in saveDone :
    /\ rg[1] <= e.blockNumber /\ e.blockNumber <= rg[2]
    /\ PrimaryKey(e) \notin StoredKeys
    /\ transferEvents # <<>>
    /\ HasCursor("batch-sync") /\ syncState["batch-sync"] < rg[1]

\* C38: in a run started with an initial batch size of 1 or more, the
\* current batch size stays between the smaller of 10 and the initial size
\* and the initial size, so it is at least 1; every range the run requests
\* holds at least one block, and every step that goes on to a new range after
\* a success or a skip moves fromBlock up.
C38_BatchSizeWithinBounds ==
  /\ [](InLoop
        => /\ ix.batchSize >= 1
           /\ (IF ix.batchSize < 10 THEN ix.batchSize ELSE 10) <= ix.currentBatchSize
           /\ ix.currentBatchSize <= ix.batchSize
           /\ ix.currentBatchSize >= 1
           /\ ix.toBlock - ix.fromBlock + 1 >= 1)
  /\ [][(InLoop /\ InLoop' /\ ix'.fromBlock # ix.fromBlock)
        => /\ ix'.fromBlock > ix.fromBlock
           /\ ix.pc # "backoff"]_vars
  /\ [][(/\ ix.pc \in {"queryFilter", "getBlock", "saveLoad", "saveWrite",
                       "findCursor", "saveCursor"}
         /\ ix'.pc = "queryFilter" /\ ix' # ix)
        => ix'.fromBlock > ix.fromBlock]_vars

\* a run started with batches of 9 is retrying a range after two rate-limit
\* failures in a row, and its batch size is still 9
C38_Witness ==
  /\ ix.pc = "queryFilter"
  /\ ix.batchSize = 9
  /\ ix.currentBatchSize = 9
  /\ ix.consecutiveFailures >= 2
  /\ ix.fromBlock > ix.startBlock

\* C39: while the throttle gate is closed (throttled is set and the release
\* time is not reached), a rate-limit signal that schedules a retry does not
\* set throttleReleaseTime to an earlier instant than the one already set.
C39_ReleaseTimeNeverEarlier ==
  [][(/\ throttled
      /\ throttleReleaseTime > 0
      /\ DOMAIN retryTimers' \ DOMAIN retryTimers # {})
     => throttleReleaseTime' >= throttleReleaseTime]_vars

\* C40: every submitted request that is not settled is in exactly one of the
\* pending queue, the set of calls in flight and the set of retry timers,
\* and at most once in the queue; a settled or unsubmitted request is in
\* none of them. requestsInFlight is the number of calls in flight and is not
\* negative, so a request that waits on its retry timer holds no slot.
C40_OnePlacePerRequest ==
  /\ \A r \in RequestIds :
       LET queued == InQueue(r)
           flying == r \in upstream
           waiting == r \in DOMAIN retryTimers
       IN /\ requests[r].status = "active"
             => /\ queued \/ flying \/ waiting
                /\ ~(queued /\ flying) /\ ~(queued /\ waiting) /\ ~(flying /\ waiting)
          /\ requests[r].status # "active" => ~queued /\ ~flying /\ ~waiting
  /\ \A i, j \in DOMAIN requestQueue : requestQueue[i] = requestQueue[j] => i = j
  /\ requestsInFlight = Cardinality(upstream)
  /\ requestsInFlight >= 0
  /\ Len(requestQueue) + requestsInFlight + Cardinality(DOMAIN retryTimers)
       = Cardinality({r \in RequestIds : requests[r].status = "active"})

\* the three places at once: a request in the queue, calls in flight, and a
\* request on its retry timer that holds no slot
C40_Witness ==
  /\ requestQueue # <<>>
  /\ upstream # {}
  /\ DOMAIN retryTimers # {}
  /\ requestsInFlight = Cardinality(upstream)
  /\ \E r \in DOMAIN retryTimers : retryTimers[r] > 0 /\ requests[r].attempts >= 2

=============================================================================
